---- MODULE Spec2Model ----
(***************************************************************************)
(* Notes pipeline of serverless-event-driven-starter-app:                  *)
(*   submit -> event bus -> work queue -> save-note worker -> notes table  *)
(*   -> outcome event -> websocket notify -> connections table -> push.    *)
(*                                                                         *)
(* The specifications share this module.  SpecWs is the connection        *)
(* registry (connect / disconnect handlers) with the notify handler;       *)
(* SpecNotes is the producer side (publish-note, the queue, the save-note  *)
(* worker, update-note, delete-note).  The events the producer side puts   *)
(* on the bus are the inputs of notify: SpecNotes checks that every event  *)
(* it emits is in EmittedEvents, and SpecWs feeds notify from that set.    *)
(***************************************************************************)
EXTENDS Naturals, Integers, Sequences, FiniteSets, TLC

(***************************************************************************)
(* Bounds                                                                  *)
(***************************************************************************)
MaxConns == 2

MaxNotes == 1

MaxPoison == 1

\* notes already stored when SpecStore starts
MaxStored == 2

\* creation times of the public notes of SpecList
MaxListed == 52

\* steps the clock of SpecRegistry runs
MaxClock == 4

\* steps the clock of SpecVisibility runs
MaxVisTicks == 6

\* concurrent instances of the worker function
MaxInstances == 2

\* WebSocket objects of the push client that exist at the same time
MaxSockets == 2

\* timeouts of the push client the browser can hold at the same time
MaxTimers == 2

Users == {"alice", "bob"}

ConnIds == 1..MaxConns

NoteIds == 1..MaxNotes

NoUser == "-"

StoredIds == 1..MaxStored

ListedIds == 1..MaxListed

VARIABLES
  connTable,    \* websocket connections table: set of items
  wsConn,       \* per connection id: transport state and the user its token named
  lastNotify,   \* record of the last notify invocation
  notesTable,   \* notes table: set of items
  queue,        \* note-processing queue: set of messages
  dlq,          \* note-processing dead-letter queue
  worker,       \* the batch handed to the save-note invocation in progress
  lastRun,      \* record of the last save-note invocation
  resp,         \* HTTP response of the last step
  emitted,      \* events the bus accepted from the last step
  nextNote,     \* number of notes submitted so far
  nextPoison,   \* number of undecodable messages enqueued so far
  acceptedNotes, \* the submits answered 202: noteId and authenticated username
  now,          \* the clock: seconds since the start
  instances,    \* per worker instance: the batch its poller received for it
  ws,           \* push client: the socket this.ws refers to, or Null
  reconnectAttempts,      \* push client: this.reconnectAttempts
  reconnectTimer,         \* push client: this.reconnectTimer, a timer id or Null
  isIntentionallyClosed,  \* push client: this.isIntentionallyClosed
  callbacks,    \* push client: the callbacks registered with onNoteEvent
  sockets,      \* browser: readyState of each WebSocket object the client made
  timers,       \* browser: the timeouts that are pending
  lastClient,   \* record of the last step of the push client
  sinceDisconnect \* whether disconnect() was the last call of the page, and the
                \* callbacks it dropped

wsVars == <<connTable, wsConn, lastNotify>>

notesVars == <<notesTable, queue, dlq, worker, lastRun, resp, emitted, nextNote,
               nextPoison, acceptedNotes>>

clientVars == <<ws, reconnectAttempts, reconnectTimer, isIntentionallyClosed,
                callbacks, sockets, timers, lastClient, sinceDisconnect>>

vars == <<connTable, wsConn, lastNotify, notesTable, queue, dlq, worker,
          lastRun, resp, emitted, nextNote, nextPoison, acceptedNotes, now,
          instances, clientVars>>

(***************************************************************************)
(* Push client of the dashboard (class NotesWebSocket): its fields after   *)
(* construction.  The browser side is the set of WebSocket objects the     *)
(* client has made, whose handlers stay attached whatever this.ws refers   *)
(* to, and the pending timeouts.                                           *)
(***************************************************************************)
maxReconnectAttempts == 5

\* reconnectDelay is assigned 1000 at construction and again in onopen, and
\* nowhere else
reconnectDelay == 1000

Null == 0

SocketIds == 1..MaxSockets

TimerIds == 1..MaxTimers

Callbacks == {"refresh", "log"}

NoTimer == [pending |-> FALSE, delay |-> 0, elapsed |-> 0, attempt |-> 0]

NoClientStep ==
  [op |-> "none", was |-> "none", scheduled |-> 0, attempt |-> 0, waited |-> 0,
   invoked |-> {}]

ClientConstructed ==
  /\ ws = Null
  /\ reconnectAttempts = 0
  /\ reconnectTimer = Null
  /\ isIntentionallyClosed = FALSE
  /\ callbacks = {}
  /\ sockets = [s \in SocketIds |-> "none"]
  /\ timers = [t \in TimerIds |-> NoTimer]
  /\ lastClient = NoClientStep
  /\ sinceDisconnect = [active |-> FALSE, dropped |-> {}]

(***************************************************************************)
(* Key-addressed table (DynamoDB document client): an item is a record     *)
(* with a partition key pk and a sort key sk, both modelled as tuples      *)
(* whose first element is the '#'-separated prefix.                        *)
(***************************************************************************)
PutItem_Append(table, item) == table \cup {item}

PutItem(table, item) ==
  {i \in table : ~(i.pk = item.pk /\ i.sk = item.sk)} \cup {item}

DeleteItem_Noop(table, pk, sk) == table

DeleteItem(table, pk, sk) ==
  {i \in table : ~(i.pk = pk /\ i.sk = sk)}

QueryPrefix_AnyPartition(table, pk, skPrefix) ==
  {i \in table : i.sk[1] = skPrefix}

QueryPrefix(table, pk, skPrefix) ==
  {i \in table : i.pk = pk /\ i.sk[1] = skPrefix}

ScanPkPrefix_NoFilter(table, pkPrefix) == table

ScanPkPrefix(table, pkPrefix) ==
  {i \in table : i.pk[1] = pkPrefix}

(***************************************************************************)
(* Connections table items written by the connect handler.                 *)
(***************************************************************************)
MetaKey(c) == <<"CONNECTION", c>>

MetaSk == <<"META">>

UserKey(u) == <<"USER", u>>

ConnSk(c) == <<"CONNECTION", c>>

MetaItem(c, u, ttl) ==
  [pk |-> MetaKey(c), sk |-> MetaSk, connectionId |-> c, username |-> u,
   ttl |-> ttl]

UserConnItem(c, u, ttl) ==
  [pk |-> UserKey(u), sk |-> ConnSk(c), connectionId |-> c, username |-> u,
   ttl |-> ttl]

\* The two logical indices of the registry, read off the table.
ByConnectionId(table) == {i \in table : i.pk[1] = "CONNECTION" /\ i.sk = MetaSk}

ByOwner(table) == {i \in table : i.pk[1] = "USER" /\ i.sk[1] = "CONNECTION"}

listForOwner(table, u) ==
  {i.connectionId : i \in QueryPrefix(table, UserKey(u), "CONNECTION")}

(***************************************************************************)
(* Events on the bus (event-client.ts).  isPublic is the payload field:    *)
(* "true", "false", or "absent" when the emitter does not write it.  pub   *)
(* is not part of the payload: it records the visibility of the note the   *)
(* event is about, as the emitter knew it.                                 *)
(***************************************************************************)
BoolField(b) == IF b THEN "true" ELSE "false"

NoteSavedEvent_FreshId(n, u, isPublic) ==
  [eventType |-> "note-saved", noteId |-> n + 1, username |-> u,
   isPublic |-> BoolField(isPublic), pub |-> isPublic]

NoteSavedEvent(n, u, isPublic) ==
  [eventType |-> "note-saved", noteId |-> n, username |-> u,
   isPublic |-> BoolField(isPublic), pub |-> isPublic]

NoteFailedEvent(n, u, isPublic) ==
  [eventType |-> "note-failed", noteId |-> n, username |-> u,
   isPublic |-> "absent", pub |-> isPublic]

NoteUpdatedEvent(n, u, isPublic) ==
  [eventType |-> "note-updated", noteId |-> n, username |-> u,
   isPublic |-> BoolField(isPublic), pub |-> isPublic]

NoteDeletedEvent(n, u, isPublic) ==
  [eventType |-> "note-deleted", noteId |-> n, username |-> u,
   isPublic |-> "absent", pub |-> isPublic]

\* Visibility of the records update-note and delete-note can find: they
\* look in the USER#<username> partition only (UserPartitionIsPrivate).
UserPartitionVisibility == {FALSE}

EmittedEvents ==
  UNION {
    {NoteSavedEvent(n, u, p) : p \in BOOLEAN} \cup
    {NoteFailedEvent(n, u, p) : p \in BOOLEAN} \cup
    {NoteUpdatedEvent(n, u, p) : p \in UserPartitionVisibility} \cup
    {NoteDeletedEvent(n, u, p) : p \in UserPartitionVisibility}
    : <<n, u>> \in NoteIds \X Users }

\* notify accepts any NoteEvent: a note-failed whose payload carries isPublic
\* is a legal input although save-note never writes the field.
NotifyInputs ==
  EmittedEvents \cup
  {[eventType |-> "note-failed", noteId |-> n, username |-> u,
    isPublic |-> f, pub |-> (f = "true")] :
      <<n, u, f>> \in NoteIds \X Users \X {"true", "false"}}

NoEvent ==
  [eventType |-> "none", noteId |-> 0, username |-> NoUser,
   isPublic |-> "absent", pub |-> FALSE]

NoNotify ==
  [ran |-> FALSE, event |-> NoEvent, threw |-> FALSE, registered |-> {},
   recipients |-> {}, result |-> <<>>, attempts |-> <<>>]

(***************************************************************************)
(* connect handler.  The token is the query-string parameter: absent,      *)
(* not decodable, decodable without a username, or naming a user.          *)
(***************************************************************************)
Tokens == {<<"none">>, <<"garbled">>, <<"nouser">>} \cup {<<"user", u>> : u \in Users}

ConnState(st, u) == [st |-> st, user |-> u]

ConnectFaults == {"none", "put1", "put2"}

TtlSeconds == 7200

\* The two PutCommands of the try block, in order; a put that throws ends it.
ConnectWrites(table, c, username, ttl, fault) ==
  IF fault = "put1" THEN table
  ELSE IF fault = "put2" THEN PutItem(table, MetaItem(c, username, ttl))
  ELSE PutItem(PutItem(table, MetaItem(c, username, ttl)),
               UserConnItem(c, username, ttl))

ConnectStatus(fault) == IF fault \in {"put1", "put2"} THEN 500 ELSE 200

\* Writes the two entries before it looks at the token.
Connect_WriteFirst(c, token, fault) ==
  /\ wsConn[c].st = "fresh"
  /\ LET username == IF token[1] = "user" THEN token[2] ELSE "alice"
         ttl == now + TtlSeconds IN
     /\ connTable' = ConnectWrites(connTable, c, username, ttl, fault)
     /\ wsConn' = [wsConn EXCEPT ![c] =
                     IF token[1] \in {"none", "nouser"}
                       THEN ConnState("rejected401", NoUser)
                     ELSE IF token[1] = "garbled"
                       THEN ConnState("failed500", NoUser)
                     ELSE IF ConnectStatus(fault) = 200
                       THEN ConnState("open", username)
                       ELSE ConnState("failed500", username)]
  /\ lastNotify' = NoNotify

Connect(c, token, fault) ==
  /\ wsConn[c].st = "fresh"
  /\ IF token[1] \in {"none", "nouser"}
       THEN \* 401 before any write
            /\ wsConn' = [wsConn EXCEPT ![c] = ConnState("rejected401", NoUser)]
            /\ UNCHANGED connTable
       ELSE IF token[1] = "garbled"
       THEN \* JSON.parse throws inside the try block: 500
            /\ wsConn' = [wsConn EXCEPT ![c] = ConnState("failed500", NoUser)]
            /\ UNCHANGED connTable
       ELSE LET username == token[2]
                ttl == now + TtlSeconds IN
            /\ connTable' = ConnectWrites(connTable, c, username, ttl, fault)
            /\ wsConn' = [wsConn EXCEPT ![c] =
                            IF ConnectStatus(fault) = 200
                              THEN ConnState("open", username)
                              ELSE ConnState("failed500", username)]
  /\ lastNotify' = NoNotify

(***************************************************************************)
(* disconnect handler, run by the gateway when an open connection closes.  *)
(***************************************************************************)
DisconnectFaults == {"none", "get", "del1", "del2"}

\* getResult.Item?.username
DisconnectUser(table, c) ==
  LET found == {i \in table : i.pk = MetaKey(c) /\ i.sk = MetaSk}
  IN IF found = {} THEN NoUser ELSE (CHOOSE i \in found : TRUE).username

\* The GetCommand and the DeleteCommands of the try block, in order.
DisconnectWrites(table, c, fault) ==
  LET username == DisconnectUser(table, c) IN
  IF fault \in {"get", "del1"} THEN table
  ELSE IF username = NoUser THEN DeleteItem(table, MetaKey(c), MetaSk)
  ELSE IF fault = "del2" THEN DeleteItem(table, MetaKey(c), MetaSk)
  ELSE DeleteItem(DeleteItem(table, MetaKey(c), MetaSk),
                  UserKey(username), ConnSk(c))

DisconnectStatus(table, c, fault) ==
  IF fault \in {"get", "del1"} THEN 500
  ELSE IF DisconnectUser(table, c) = NoUser THEN 200
  ELSE IF fault = "del2" THEN 500
  ELSE 200

Disconnect(c, fault) ==
  /\ wsConn[c].st = "open"
  /\ connTable' = DisconnectWrites(connTable, c, fault)
  /\ wsConn' = [wsConn EXCEPT ![c].st =
                  IF DisconnectStatus(connTable, c, fault) = 200
                    THEN "closed200" ELSE "closed500"]
  /\ lastNotify' = NoNotify

(***************************************************************************)
(* An endpoint that goes away without the disconnect handler running.      *)
(***************************************************************************)
SilentClose(c) ==
  /\ wsConn[c].st = "open"
  /\ wsConn' = [wsConn EXCEPT ![c].st = "lost"]
  /\ lastNotify' = NoNotify
  /\ UNCHANGED connTable

(***************************************************************************)
(* notify handler.  res gives, for every resolved recipient, what its      *)
(* send promise did: "sent", "error" (a failure other than GoneException,  *)
(* rethrown), or GoneException followed by the cleanup: "gone:none" (the   *)
(* first delete threw), "gone:meta" (the second delete threw) or           *)
(* "gone:both".  Promise.allSettled absorbs every rejection.               *)
(***************************************************************************)
\* this.connectionsTable.grantReadData(notifyFunction): notify's role has
\* no write action on the connections table, so its DeleteCommand is denied.
NotifyCanWriteConnections == FALSE

NotifyDeleteOutcomes ==
  IF NotifyCanWriteConnections THEN {"ok", "error"} ELSE {"error"}

PushResults(c) ==
  IF wsConn[c].st = "open"
    THEN {"sent", "error"}
    ELSE {"error", "gone:none"} \cup
         (IF "ok" \in NotifyDeleteOutcomes THEN {"gone:meta", "gone:both"} ELSE {})

\* connections.map(...): one PostToConnectionCommand per item the read
\* returned, so a connection id gets as many sends as items carry it.
Attempts(connections, ids) ==
  [c \in ids |-> Cardinality({i \in connections : i.connectionId = c})]

IsBroadcast_AnyType(e) == e.isPublic = "true"

IsBroadcast(e) ==
  /\ e.isPublic = "true"
  /\ e.eventType \in {"note-saved", "note-updated", "note-deleted"}

ResolveConnections_OwnerOnly(table, e) ==
  QueryPrefix(table, UserKey(e.username), "CONNECTION")

ResolveConnections(table, e) ==
  IF IsBroadcast(e)
    THEN ScanPkPrefix(table, "CONNECTION")
    ELSE QueryPrefix(table, UserKey(e.username), "CONNECTION")

RECURSIVE CleanupAll_EvictOnError(_, _, _, _)
CleanupAll_EvictOnError(table, username, res, todo) ==
  IF todo = {} THEN table
  ELSE LET c == CHOOSE x \in todo : TRUE
           t1 == IF res[c] # "sent"
                   THEN {i \in table : ~(i.pk = MetaKey(c) /\ i.sk = MetaSk)} ELSE table
           t2 == IF res[c] # "sent"
                   THEN {i \in t1 : ~(i.pk = UserKey(username) /\ i.sk = ConnSk(c))} ELSE t1
       IN CleanupAll_EvictOnError(t2, username, res, todo \ {c})

RECURSIVE CleanupAll(_, _, _, _)
CleanupAll(table, username, res, todo) ==
  IF todo = {} THEN table
  ELSE LET c == CHOOSE x \in todo : TRUE
           t1 == IF res[c] \in {"gone:meta", "gone:both"}
                   THEN DeleteItem(table, MetaKey(c), MetaSk) ELSE table
           t2 == IF res[c] = "gone:both"
                   THEN DeleteItem(t1, UserKey(username), ConnSk(c)) ELSE t1
       IN CleanupAll(t2, username, res, todo \ {c})

Notify_AwaitEach(e, fault) ==
  LET username == e.username
      connections == ResolveConnections(connTable, e)
      recipients == {i.connectionId : i \in connections}
      registered == {i.connectionId : i \in ByConnectionId(connTable)}
  IN
  IF fault = "read"
    THEN /\ lastNotify' = [ran |-> TRUE, event |-> e, threw |-> TRUE,
                           registered |-> registered, recipients |-> {},
                           result |-> <<>>, attempts |-> <<>>]
         /\ UNCHANGED <<connTable, wsConn>>
    ELSE \E res \in [recipients -> {"sent", "error", "gone:none", "gone:meta", "gone:both"}] :
         /\ \A c \in recipients : res[c] \in PushResults(c)
         /\ LET failed == {c \in recipients : res[c] \notin {"sent", "gone:both"}}
                first == IF failed = {} THEN recipients
                         ELSE {CHOOSE c \in failed : TRUE}
            IN /\ connTable' = CleanupAll(connTable, username, res, first)
               /\ lastNotify' = [ran |-> TRUE, event |-> e, threw |-> failed # {},
                                 registered |-> registered, recipients |-> recipients,
                                 result |-> [c \in first |-> res[c]],
                                 attempts |-> Attempts(connections, first)]
         /\ UNCHANGED wsConn

Notify(e, fault) ==
  LET username == e.username
      connections == ResolveConnections(connTable, e)
      recipients == {i.connectionId : i \in connections}
      registered == {i.connectionId : i \in ByConnectionId(connTable)}
  IN
  IF fault = "read"
    THEN \* the scan / query throws: logged and rethrown by the outer catch
         /\ lastNotify' = [ran |-> TRUE, event |-> e, threw |-> TRUE,
                           registered |-> registered, recipients |-> {},
                           result |-> <<>>, attempts |-> <<>>]
         /\ UNCHANGED <<connTable, wsConn>>
    ELSE \E res \in [recipients -> {"sent", "error", "gone:none", "gone:meta", "gone:both"}] :
         /\ \A c \in recipients : res[c] \in PushResults(c)
         /\ connTable' = CleanupAll(connTable, username, res, recipients)
         /\ lastNotify' = [ran |-> TRUE, event |-> e, threw |-> FALSE,
                           registered |-> registered, recipients |-> recipients,
                           result |-> res,
                           attempts |-> Attempts(connections, recipients)]
         /\ UNCHANGED wsConn

(***************************************************************************)
(* Notes table items (notes-db-client.ts NoteRecord).  The sort key is     *)
(* NOTE#<timestamp>#<noteId>.  Text is a tuple of characters.              *)
(***************************************************************************)
PublicKey == <<"PUBLIC", "NOTES">>

NoteSk(timestamp, n) == <<"NOTE", timestamp, n>>

NoteItem_Pending(pk, n, u, content, isPublic, timestamp) ==
  [pk |-> pk, sk |-> NoteSk(timestamp, n), noteId |-> n, username |-> u,
   content |-> content, isPublic |-> isPublic, status |-> "pending",
   createdAt |-> timestamp, savedAt |-> "unset", updatedAt |-> "unset"]

NoteItem(pk, n, u, content, isPublic, timestamp) ==
  [pk |-> pk, sk |-> NoteSk(timestamp, n), noteId |-> n, username |-> u,
   content |-> content, isPublic |-> isPublic, status |-> "saved",
   createdAt |-> timestamp, savedAt |-> "set", updatedAt |-> "unset"]

getUserNotes(table, u) == QueryPrefix(table, UserKey(u), "NOTE")

\* Sort keys NOTE#<timestamp>#<noteId> compare as strings: by timestamp (an
\* ISO date of fixed width), then by noteId.
SkLess(a, b) == a[2] < b[2] \/ (a[2] = b[2] /\ a[3] < b[3])

\* Query with ScanIndexForward false and a Limit: the items in descending
\* sort key order, cut after limit items.
RECURSIVE QueryDescending(_, _)
QueryDescending(items, limit) ==
  IF items = {} \/ limit = 0 THEN <<>>
  ELSE LET top == CHOOSE i \in items : \A j \in items : ~SkLess(i.sk, j.sk)
       IN <<top>> \o QueryDescending(items \ {top}, limit - 1)

RECURSIVE QueryAscending(_, _)
QueryAscending(items, limit) ==
  IF items = {} \/ limit = 0 THEN <<>>
  ELSE LET low == CHOOSE i \in items : \A j \in items : ~SkLess(j.sk, i.sk)
       IN <<low>> \o QueryAscending(items \ {low}, limit - 1)

PublicLimit == 50

getPublicNotes_OldestFirst(table) ==
  QueryAscending(QueryPrefix(table, PublicKey, "NOTE"), PublicLimit)

getPublicNotes(table) ==
  QueryDescending(QueryPrefix(table, PublicKey, "NOTE"), PublicLimit)

findNoteByIdForUser_AnyUser(table, u, n) ==
  {i \in table : i.pk[1] = "USER" /\ i.sk[1] = "NOTE" /\ i.noteId = n}

findNoteByIdForUser(table, u, n) ==
  {i \in QueryPrefix(table, UserKey(u), "NOTE") : i.noteId = n}

updateNote_WholePartition(table, pk, sk, content) ==
  {IF i.pk = pk
     THEN [i EXCEPT !.content = content, !.updatedAt = "set"]
     ELSE i : i \in table}

\* UpdateCommand without a condition: it creates the item when the key is
\* not stored.
updateNote(table, pk, sk, content) ==
  IF \E i \in table : i.pk = pk /\ i.sk = sk
    THEN {IF i.pk = pk /\ i.sk = sk
            THEN [i EXCEPT !.content = content, !.updatedAt = "set"]
            ELSE i : i \in table}
    ELSE table \cup {[pk |-> pk, sk |-> sk, content |-> content, updatedAt |-> "set"]}

RECURSIVE Trim(_)
Trim(text) ==
  IF text = <<>> THEN text
  ELSE IF Head(text) = " " THEN Trim(Tail(text))
  ELSE IF text[Len(text)] = " " THEN Trim(SubSeq(text, 1, Len(text) - 1))
  ELSE text

(***************************************************************************)
(* Queue messages.  body.wellFormed says whether JSON.parse of the body    *)
(* and of its detail succeeds; detail is the NoteCreatedEvent it yields.   *)
(***************************************************************************)
MaxReceiveCount == 3

BatchSize == 10

NoteCreatedEvent(n, u, content, isPublic, timestamp) ==
  [eventType |-> "note-created", noteId |-> n, username |-> u,
   content |-> content, isPublic |-> isPublic, timestamp |-> timestamp]

NoDetail == NoteCreatedEvent(0, NoUser, <<>>, FALSE, 0)

Message(id, wellFormed, detail) ==
  [id |-> id, body |-> [wellFormed |-> wellFormed, detail |-> detail],
   receiveCount |-> 0, inflight |-> FALSE, visibleAt |-> 0]

PoisonId(k) == 0 - k

InstanceIds == 1..MaxInstances

\* A worker instance without a batch.
Idle == [phase |-> "idle", handles |-> {}, receivedAt |-> 0, startedAt |-> 0]

(***************************************************************************)
(* Ghost record of the last step: the HTTP response it returned and the    *)
(* events the bus accepted from it.                                        *)
(***************************************************************************)
NoResp == [op |-> "none", status |-> 0, noteId |-> 0]

Resp(op, status, n) == [op |-> op, status |-> status, noteId |-> n]

NoRun == [ran |-> FALSE, batch |-> <<>>, steps |-> <<>>, failures |-> <<>>]

(***************************************************************************)
(* publish-note handler (HTTP POST /notes).                                *)
(***************************************************************************)
Accepted(n, u) == [noteId |-> n, username |-> u]

MissingBody == [kind |-> "missing", text |-> <<>>]

SubmitBodies ==
  {MissingBody, [kind |-> "number", text |-> <<>>],
   [kind |-> "string", text |-> <<>>], [kind |-> "string", text |-> <<" ">>],
   [kind |-> "string", text |-> <<"h">>], [kind |-> "string", text |-> <<" ", "h">>]}

ContentRejected_NoTrim(body) ==
  \/ body.kind = "missing"
  \/ body.kind # "string"
  \/ body.text = <<>>

ContentRejected(body) ==
  \/ body.kind = "missing"
  \/ body.kind # "string"
  \/ body.text = <<>>
  \/ Trim(body.text) = <<>>

PublishNote(token, body, isPublic, fault) ==
  /\ lastRun' = NoRun
  /\ emitted' = {}
  /\ UNCHANGED <<notesTable, dlq, worker, nextPoison>>
  /\ IF token[1] \in {"none", "nouser"}
       THEN /\ resp' = Resp("publish", 401, 0)
            /\ UNCHANGED <<queue, nextNote, acceptedNotes>>
       ELSE IF token[1] = "garbled"
       THEN /\ resp' = Resp("publish", 500, 0)
            /\ UNCHANGED <<queue, nextNote, acceptedNotes>>
       ELSE IF ContentRejected(body)
       THEN /\ resp' = Resp("publish", 400, 0)
            /\ UNCHANGED <<queue, nextNote, acceptedNotes>>
       ELSE /\ nextNote < MaxNotes
            /\ LET noteId == nextNote + 1
                   timestamp == nextNote + 1
                   username == token[2]
                   detail == NoteCreatedEvent(noteId, username, Trim(body.text),
                                              isPublic, timestamp)
               IN IF fault = "putEvents"
                    THEN \* PutEvents throws: 500, the id is spent
                         /\ resp' = Resp("publish", 500, 0)
                         /\ nextNote' = noteId
                         /\ UNCHANGED <<queue, acceptedNotes>>
                    ELSE \* NoteCreatedRule delivers the event to the queue
                         /\ resp' = Resp("publish", 202, noteId)
                         /\ nextNote' = noteId
                         /\ queue' = queue \cup {Message(noteId, TRUE, detail)}
                         /\ acceptedNotes' = acceptedNotes \cup {Accepted(noteId, username)}

(***************************************************************************)
(* An undecodable message put on the queue by a sender other than the      *)
(* NoteCreatedRule.                                                        *)
(***************************************************************************)
EnqueuePoison ==
  /\ nextPoison < MaxPoison
  /\ nextPoison' = nextPoison + 1
  /\ queue' = queue \cup {Message(PoisonId(nextPoison + 1), FALSE, NoDetail)}
  /\ lastRun' = NoRun
  /\ resp' = NoResp
  /\ emitted' = {}
  /\ UNCHANGED <<notesTable, dlq, worker, nextNote, acceptedNotes>>

(***************************************************************************)
(* The queue and its Lambda event source (event-stack.ts, EventStack;      *)
(* frontend-stack.ts, SqsEventSource with reportBatchItemFailures).        *)
(***************************************************************************)
Visible == {m \in queue : ~m.inflight}

MessageById(id) == CHOOSE m \in queue : m.id = id

Range(seq) == {seq[i] : i \in 1..Len(seq)}

\* The records of one batch carry different message ids and write different
\* keys, so the order of event.Records does not change what the handler
\* does; a batch is taken in id order.
RECURSIVE InIdOrder(_)
InIdOrder(S) ==
  IF S = {} THEN <<>>
  ELSE LET least == CHOOSE x \in S : \A y \in S : x <= y
       IN <<least>> \o InIdOrder(S \ {least})

MoveToDlq_KeepCopy(m) ==
  /\ m \in Visible
  /\ m.receiveCount >= MaxReceiveCount
  /\ queue' = (queue \ {m}) \cup {[m EXCEPT !.receiveCount = 0]}
  /\ dlq' = dlq \cup {m}
  /\ lastRun' = NoRun
  /\ resp' = NoResp
  /\ emitted' = {}
  /\ UNCHANGED <<notesTable, worker, nextNote, nextPoison, acceptedNotes>>

MoveToDlq_Drop(m) ==
  /\ m \in Visible
  /\ m.receiveCount >= MaxReceiveCount
  /\ queue' = queue \ {m}
  /\ dlq' = dlq
  /\ lastRun' = NoRun
  /\ resp' = NoResp
  /\ emitted' = {}
  /\ UNCHANGED <<notesTable, worker, nextNote, nextPoison, acceptedNotes>>

\* A message received more than maxReceiveCount times goes to the DLQ.
MoveToDlq(m) ==
  /\ m \in Visible
  /\ m.receiveCount >= MaxReceiveCount
  /\ queue' = queue \ {m}
  /\ dlq' = dlq \cup {m}
  /\ lastRun' = NoRun
  /\ resp' = NoResp
  /\ emitted' = {}
  /\ UNCHANGED <<notesTable, worker, nextNote, nextPoison, acceptedNotes>>

WorkerReceive_OneMore(S) ==
  /\ worker = <<>>
  /\ S # {}
  /\ S \subseteq {m.id : m \in {v \in Visible : v.receiveCount < MaxReceiveCount + 1}}
  /\ Cardinality(S) <= BatchSize
  /\ worker' = InIdOrder(S)
  /\ queue' = {IF m.id \in S
                 THEN [m EXCEPT !.receiveCount = @ + 1, !.inflight = TRUE]
                 ELSE m : m \in queue}
  /\ lastRun' = NoRun
  /\ resp' = NoResp
  /\ emitted' = {}
  /\ UNCHANGED <<notesTable, dlq, nextNote, nextPoison, acceptedNotes>>

WorkerReceive(S) ==
  /\ worker = <<>>
  /\ S # {}
  /\ S \subseteq {m.id : m \in {v \in Visible : v.receiveCount < MaxReceiveCount}}
  /\ Cardinality(S) <= BatchSize
  /\ worker' = InIdOrder(S)
  /\ queue' = {IF m.id \in S
                 THEN [m EXCEPT !.receiveCount = @ + 1, !.inflight = TRUE]
                 ELSE m : m \in queue}
  /\ lastRun' = NoRun
  /\ resp' = NoResp
  /\ emitted' = {}
  /\ UNCHANGED <<notesTable, dlq, nextNote, nextPoison, acceptedNotes>>

(***************************************************************************)
(* save-note handler.  One step of the loop over event.Records, given the  *)
(* outcome of each call it may make: put (putNote), savedPub (publishEvent *)
(* of note-saved) and failedPub (publishEvent of note-failed in the catch  *)
(* block).  "skipped" is a call the step does not reach.                   *)
(***************************************************************************)
Outcome(put, savedPub, failedPub) ==
  [put |-> put, savedPub |-> savedPub, failedPub |-> failedPub]

Outcomes(msg) ==
  IF ~msg.body.wellFormed
    THEN {Outcome("skipped", "skipped", "skipped")}
    ELSE {Outcome("ok", "ok", "skipped"),
          Outcome("ok", "error", "ok"), Outcome("ok", "error", "error"),
          Outcome("error", "skipped", "ok"), Outcome("error", "skipped", "error")}

HasKey(table, item) == \E i \in table : i.pk = item.pk /\ i.sk = item.sk

SaveItem(ev) ==
  NoteItem(IF ev.isPublic THEN PublicKey ELSE UserKey(ev.username),
           ev.noteId, ev.username, ev.content, ev.isPublic, ev.timestamp)

ProcessRecord_SwallowPutError(table, msg, out) ==
  IF ~msg.body.wellFormed
    THEN [table |-> table, failed |-> TRUE, events |-> {},
          step |-> [id |-> msg.id, parsed |-> "error", detail |-> NoDetail,
                    put |-> "skipped", savedPub |-> "skipped",
                    failedPub |-> "skipped", failedEvent |-> NoEvent,
                    delivery |-> msg.receiveCount, overwrote |-> FALSE]]
    ELSE LET ev == msg.body.detail
             written == IF out.put = "ok" THEN PutItem(table, SaveItem(ev)) ELSE table
             threw == out.savedPub = "error"
             failedEvent == NoteFailedEvent(ev.noteId, ev.username, ev.isPublic)
             saved == IF out.put = "ok" /\ out.savedPub = "ok"
                        THEN {NoteSavedEvent(ev.noteId, ev.username, ev.isPublic)}
                        ELSE {}
             failed == IF threw /\ out.failedPub = "ok" THEN {failedEvent} ELSE {}
         IN [table |-> written, failed |-> threw, events |-> saved \cup failed,
             step |-> [id |-> msg.id, parsed |-> "ok", detail |-> ev,
                       put |-> out.put, savedPub |-> out.savedPub,
                       failedPub |-> out.failedPub,
                       failedEvent |-> IF threw THEN failedEvent ELSE NoEvent,
                       delivery |-> msg.receiveCount,
                       overwrote |-> out.put = "ok" /\ HasKey(table, SaveItem(ev))]]

\* Result of one record: the table, whether the catch block ran, the events
\* the bus accepted, and the trace of the step.
ProcessRecord(table, msg, out) ==
  IF ~msg.body.wellFormed
    THEN \* JSON.parse throws; it throws again inside the catch block
         [table |-> table, failed |-> TRUE, events |-> {},
          step |-> [id |-> msg.id, parsed |-> "error", detail |-> NoDetail,
                    put |-> "skipped", savedPub |-> "skipped",
                    failedPub |-> "skipped", failedEvent |-> NoEvent,
                    delivery |-> msg.receiveCount, overwrote |-> FALSE]]
    ELSE LET ev == msg.body.detail
             written == IF out.put = "ok" THEN PutItem(table, SaveItem(ev)) ELSE table
             threw == out.put = "error" \/ out.savedPub = "error"
             failedEvent == NoteFailedEvent(ev.noteId, ev.username, ev.isPublic)
             saved == IF out.put = "ok" /\ out.savedPub = "ok"
                        THEN {NoteSavedEvent(ev.noteId, ev.username, ev.isPublic)}
                        ELSE {}
             failed == IF threw /\ out.failedPub = "ok" THEN {failedEvent} ELSE {}
         IN [table |-> written, failed |-> threw, events |-> saved \cup failed,
             step |-> [id |-> msg.id, parsed |-> "ok", detail |-> ev,
                       put |-> out.put, savedPub |-> out.savedPub,
                       failedPub |-> out.failedPub,
                       failedEvent |-> IF threw THEN failedEvent ELSE NoEvent,
                       delivery |-> msg.receiveCount,
                       overwrote |-> out.put = "ok" /\ HasKey(table, SaveItem(ev))]]

RECURSIVE RunBatch_StopAtFailure(_, _, _, _)
RECURSIVE RunBatch(_, _, _, _)
RunBatch_StopAtFailure(acc, msgs, outs, i) ==
  IF i > Len(msgs) THEN acc
  ELSE LET r == ProcessRecord(acc.table, msgs[i], outs[i])
           next == [table |-> r.table,
                    steps |-> Append(acc.steps, r.step),
                    batchItemFailures |->
                      IF r.failed THEN Append(acc.batchItemFailures, msgs[i].id)
                      ELSE acc.batchItemFailures,
                    events |-> acc.events \cup r.events]
       IN IF r.failed THEN next
          ELSE RunBatch_StopAtFailure(next, msgs, outs, i + 1)

RECURSIVE RunBatch_PublishErrorEscapes(_, _, _, _)
RunBatch_PublishErrorEscapes(acc, msgs, outs, i) ==
  IF i > Len(msgs) THEN acc
  ELSE LET r == ProcessRecord(acc.table, msgs[i], outs[i])
           escapes == r.failed /\ r.step.failedPub = "error"
           next == [table |-> r.table,
                    steps |-> Append(acc.steps, r.step),
                    batchItemFailures |->
                      IF r.failed /\ ~escapes
                        THEN Append(acc.batchItemFailures, msgs[i].id)
                        ELSE acc.batchItemFailures,
                    events |-> acc.events \cup r.events]
       IN IF escapes THEN next
          ELSE RunBatch_PublishErrorEscapes(next, msgs, outs, i + 1)

RunBatch(acc, msgs, outs, i) ==
  IF i > Len(msgs) THEN acc
  ELSE LET r == ProcessRecord(acc.table, msgs[i], outs[i])
       IN RunBatch([table |-> r.table,
                    steps |-> Append(acc.steps, r.step),
                    batchItemFailures |->
                      IF r.failed THEN Append(acc.batchItemFailures, msgs[i].id)
                      ELSE acc.batchItemFailures,
                    events |-> acc.events \cup r.events],
                   msgs, outs, i + 1)

SaveNote(outs) ==
  /\ worker # <<>>
  /\ LET msgs == [i \in 1..Len(worker) |-> MessageById(worker[i])]
         start == [table |-> notesTable, steps |-> <<>>,
                   batchItemFailures |-> <<>>, events |-> {}]
     IN /\ \A i \in 1..Len(worker) : outs[i] \in Outcomes(msgs[i])
        /\ LET r == RunBatch(start, msgs, outs, 1)
               failedIds == Range(r.batchItemFailures)
           IN /\ notesTable' = r.table
              /\ emitted' = r.events
              /\ lastRun' = [ran |-> TRUE, batch |-> worker, steps |-> r.steps,
                             failures |-> r.batchItemFailures]
              \* the event source deletes the records not reported as failed;
              \* the others become visible again
              /\ queue' = {IF m.id \in failedIds THEN [m EXCEPT !.inflight = FALSE] ELSE m :
                             m \in {q \in queue : q.id \notin Range(worker) \ failedIds}}
  /\ worker' = <<>>
  /\ resp' = NoResp
  /\ UNCHANGED <<dlq, nextNote, nextPoison, acceptedNotes>>
(***************************************************************************)
(* update-note handler (HTTP PUT /notes/{noteId}).  The handler factory    *)
(* has authenticated the caller as username and validated the body with    *)
(* updateNoteBodySchema; an error thrown by the handler becomes a 500.     *)
(***************************************************************************)
UpdateBodies == {<<>>, <<"e">>, <<" ", "e">>}

UpdateNote_PublishFirst(username, n, text, fault) ==
  /\ lastRun' = NoRun
  /\ UNCHANGED <<queue, dlq, worker, nextNote, nextPoison, acceptedNotes>>
  /\ LET content == Trim(text)
         found == findNoteByIdForUser(notesTable, username, n)
     IN IF Len(text) < 1 \/ fault = "find" \/ found = {}
          THEN /\ resp' = Resp("update", IF Len(text) < 1 THEN 400
                                         ELSE IF fault = "find" THEN 500 ELSE 404, 0)
               /\ emitted' = {}
               /\ UNCHANGED notesTable
          ELSE LET noteData == CHOOSE i \in found : TRUE IN
               /\ emitted' = IF fault = "publish" THEN {}
                             ELSE {NoteUpdatedEvent(n, username, noteData.isPublic)}
               /\ notesTable' = IF fault \in {"publish", "update"} THEN notesTable
                                ELSE updateNote(notesTable, noteData.pk, noteData.sk, content)
               /\ resp' = IF fault = "none" THEN Resp("update", 200, n)
                          ELSE Resp("update", 500, 0)

UpdateNote(username, n, text, fault) ==
  /\ lastRun' = NoRun
  /\ UNCHANGED <<queue, dlq, worker, nextNote, nextPoison, acceptedNotes>>
  /\ LET content == Trim(text)
         found == findNoteByIdForUser(notesTable, username, n)
     IN IF Len(text) < 1
          THEN /\ resp' = Resp("update", 400, 0)
               /\ emitted' = {}
               /\ UNCHANGED notesTable
          ELSE IF fault = "find"
          THEN /\ resp' = Resp("update", 500, 0)
               /\ emitted' = {}
               /\ UNCHANGED notesTable
          ELSE IF found = {}
          THEN /\ resp' = Resp("update", 404, 0)
               /\ emitted' = {}
               /\ UNCHANGED notesTable
          ELSE LET noteData == CHOOSE i \in found : TRUE IN
               IF fault = "update"
                 THEN /\ resp' = Resp("update", 500, 0)
                      /\ emitted' = {}
                      /\ UNCHANGED notesTable
                 ELSE /\ notesTable' = updateNote(notesTable, noteData.pk, noteData.sk, content)
                      /\ IF fault = "publish"
                           THEN /\ resp' = Resp("update", 500, 0)
                                /\ emitted' = {}
                           ELSE /\ resp' = Resp("update", 200, n)
                                /\ emitted' = {NoteUpdatedEvent(n, username, noteData.isPublic)}

(***************************************************************************)
(* delete-note handler (HTTP DELETE /notes/{noteId}); n = 0 stands for a   *)
(* request without a noteId path parameter.                                *)
(***************************************************************************)
DeleteNote(token, n, fault) ==
  /\ lastRun' = NoRun
  /\ UNCHANGED <<queue, dlq, worker, nextNote, nextPoison, acceptedNotes>>
  /\ IF token[1] \in {"none", "nouser"}
       THEN /\ resp' = Resp("delete", 401, 0)
            /\ emitted' = {}
            /\ UNCHANGED notesTable
       ELSE IF token[1] = "garbled"
       THEN /\ resp' = Resp("delete", 500, 0)
            /\ emitted' = {}
            /\ UNCHANGED notesTable
       ELSE IF n = 0
       THEN /\ resp' = Resp("delete", 400, 0)
            /\ emitted' = {}
            /\ UNCHANGED notesTable
       ELSE LET username == token[2]
                found == findNoteByIdForUser(notesTable, username, n)
            IN IF fault = "find"
                 THEN /\ resp' = Resp("delete", 500, 0)
                      /\ emitted' = {}
                      /\ UNCHANGED notesTable
                 ELSE IF found = {}
                 THEN /\ resp' = Resp("delete", 404, 0)
                      /\ emitted' = {}
                      /\ UNCHANGED notesTable
                 ELSE LET noteData == CHOOSE i \in found : TRUE
                          pk == UserKey(username)
                          sk == noteData.sk
                          t1 == DeleteItem(notesTable, pk, sk)
                          \* sk.replace(`USER#${username}`, 'NOTE') leaves sk as it is
                          t2 == IF noteData.isPublic
                                  THEN DeleteItem(t1, PublicKey, sk) ELSE t1
                      IN IF fault = "del1"
                           THEN /\ resp' = Resp("delete", 500, 0)
                                /\ emitted' = {}
                                /\ UNCHANGED notesTable
                           ELSE IF noteData.isPublic /\ fault = "del2"
                           THEN /\ resp' = Resp("delete", 500, 0)
                                /\ emitted' = {}
                                /\ notesTable' = t1
                           ELSE /\ notesTable' = t2
                                /\ IF fault = "publish"
                                     THEN /\ resp' = Resp("delete", 500, 0)
                                          /\ emitted' = {}
                                     ELSE /\ resp' = Resp("delete", 200, n)
                                          /\ emitted' = {NoteDeletedEvent(n, username, noteData.isPublic)}

(***************************************************************************)
(* Specifications                                                          *)
(***************************************************************************)
Init ==
  /\ connTable = {}
  /\ wsConn = [c \in ConnIds |-> ConnState("fresh", NoUser)]
  /\ lastNotify = NoNotify
  /\ notesTable = {}
  /\ queue = {}
  /\ dlq = {}
  /\ worker = <<>>
  /\ lastRun = NoRun
  /\ resp = NoResp
  /\ emitted = {}
  /\ nextNote = 0
  /\ nextPoison = 0
  /\ acceptedNotes = {}
  /\ now = 0
  /\ instances = [w \in InstanceIds |-> Idle]
  /\ ClientConstructed

ConnectStep ==
  \E c \in ConnIds, token \in Tokens :
    \E fault \in IF token[1] = "user" THEN ConnectFaults ELSE {"none"} :
      Connect(c, token, fault)

DisconnectStep ==
  \E c \in ConnIds, fault \in DisconnectFaults : Disconnect(c, fault)

SilentCloseStep == \E c \in ConnIds : SilentClose(c)

NotifyStep == \E e \in NotifyInputs, fault \in {"none", "read"} : Notify(e, fault)

\* lastNotify describes the notify invocation that has just returned and is
\* dropped before the next step.
ForgetNotify ==
  /\ lastNotify # NoNotify
  /\ lastNotify' = NoNotify
  /\ UNCHANGED <<connTable, wsConn>>

NextWs ==
  /\ \/ lastNotify = NoNotify /\ ConnectStep
     \/ lastNotify = NoNotify /\ DisconnectStep
     \/ lastNotify = NoNotify /\ SilentCloseStep
     \/ lastNotify = NoNotify /\ NotifyStep
     \/ ForgetNotify
  /\ UNCHANGED notesVars
  /\ UNCHANGED <<now, instances, clientVars>>

SpecWs == Init /\ [][NextWs]_vars

\* Inputs a handler does not read on the path it takes are not enumerated.
PublishNoteStep ==
  \E token \in Tokens :
    \E body \in IF token[1] = "user" THEN SubmitBodies ELSE {MissingBody} :
      LET accepted == token[1] = "user" /\ ~ContentRejected(body) IN
      \E isPublic \in IF accepted THEN BOOLEAN ELSE {FALSE},
         fault \in IF accepted THEN {"none", "putEvents"} ELSE {"none"} :
        PublishNote(token, body, isPublic, fault)

MoveToDlqStep == \E m \in queue : MoveToDlq(m)

WorkerReceiveStep ==
  \E S \in SUBSET {m.id : m \in queue} : WorkerReceive(S)

AllOutcomes ==
  {Outcome("skipped", "skipped", "skipped"), Outcome("ok", "ok", "skipped"),
   Outcome("ok", "error", "ok"), Outcome("ok", "error", "error"),
   Outcome("error", "skipped", "ok"), Outcome("error", "skipped", "error")}

SaveNoteStep ==
  \E outs \in [1..Len(worker) -> AllOutcomes] : SaveNote(outs)

UpdateNoteStep ==
  \E username \in Users, n \in NoteIds, text \in UpdateBodies :
    \E fault \in IF Len(text) < 1 THEN {"none"}
                 ELSE IF findNoteByIdForUser(notesTable, username, n) = {}
                        THEN {"none", "find"}
                        ELSE {"none", "find", "update", "publish"} :
      UpdateNote(username, n, text, fault)

DeleteNoteStep ==
  \E token \in Tokens :
    \E n \in IF token[1] = "user" THEN {0} \cup NoteIds ELSE {0} :
      \E fault \in IF token[1] # "user" \/ n = 0 THEN {"none"}
                   ELSE IF findNoteByIdForUser(notesTable, token[2], n) = {}
                          THEN {"none", "find"}
                          ELSE {"none", "find", "del1", "del2", "publish"} :
        DeleteNote(token, n, fault)

\* lastRun, resp and emitted describe the step that has just been taken and
\* are dropped before the next one.
Settled == lastRun = NoRun /\ resp = NoResp /\ emitted = {}

Settle ==
  /\ ~Settled
  /\ lastRun' = NoRun
  /\ resp' = NoResp
  /\ emitted' = {}
  /\ UNCHANGED <<notesTable, queue, dlq, worker, nextNote, nextPoison, acceptedNotes>>

NextNotes ==
  /\ \/ Settled /\ PublishNoteStep
     \/ Settled /\ EnqueuePoison
     \/ Settled /\ MoveToDlqStep
     \/ Settled /\ WorkerReceiveStep
     \/ Settled /\ SaveNoteStep
     \/ Settled /\ UpdateNoteStep
     \/ Settled /\ DeleteNoteStep
     \/ Settle
  /\ UNCHANGED wsVars
  /\ UNCHANGED <<now, instances, clientVars>>

SpecNotes == Init /\ [][NextNotes]_vars

\* The queue hands visible messages to its event source, the event source
\* invokes the worker and returns, and an exhausted message is moved, whatever
\* the HTTP handlers do meanwhile.
FairSpecNotes ==
  /\ SpecNotes
  /\ SF_vars(Settled /\ MoveToDlqStep /\ UNCHANGED <<wsVars, now, instances, clientVars>>)
  /\ SF_vars(Settled /\ WorkerReceiveStep /\ UNCHANGED <<wsVars, now, instances, clientVars>>)
  /\ SF_vars(Settled /\ SaveNoteStep /\ UNCHANGED <<wsVars, now, instances, clientVars>>)
  /\ WF_vars(Settle /\ UNCHANGED <<wsVars, now, instances, clientVars>>)

\* The update and delete handlers on a table that already holds notes the
\* worker has written: each noteId has no record, or the record the worker
\* writes for a private or a public note of one of the users.
SeedRecords ==
  {SaveItem(NoteCreatedEvent(n, u, <<"h">>, isPublic, n)) :
     n \in StoredIds, u \in Users, isPublic \in BOOLEAN}

SeedTables ==
  {T \in SUBSET SeedRecords : \A i, j \in T : i.noteId = j.noteId => i = j}

InitStore ==
  /\ connTable = {}
  /\ wsConn = [c \in ConnIds |-> ConnState("fresh", NoUser)]
  /\ lastNotify = NoNotify
  /\ notesTable \in SeedTables
  /\ queue = {}
  /\ dlq = {}
  /\ worker = <<>>
  /\ lastRun = NoRun
  /\ resp = NoResp
  /\ emitted = {}
  /\ nextNote = MaxStored
  /\ nextPoison = 0
  /\ acceptedNotes = {Accepted(i.noteId, i.username) : i \in notesTable}
  /\ now = 0
  /\ instances = [w \in InstanceIds |-> Idle]
  /\ ClientConstructed

StoreUpdateStep ==
  \E username \in Users, n \in StoredIds, text \in UpdateBodies :
    \E fault \in IF Len(text) < 1 THEN {"none"}
                 ELSE IF findNoteByIdForUser(notesTable, username, n) = {}
                        THEN {"none", "find"}
                        ELSE {"none", "find", "update", "publish"} :
      UpdateNote(username, n, text, fault)

StoreDeleteStep ==
  \E token \in Tokens :
    \E n \in IF token[1] = "user" THEN {0} \cup StoredIds ELSE {0} :
      \E fault \in IF token[1] # "user" \/ n = 0 THEN {"none"}
                   ELSE IF findNoteByIdForUser(notesTable, token[2], n) = {}
                          THEN {"none", "find"}
                          ELSE {"none", "find", "del1", "del2", "publish"} :
        DeleteNote(token, n, fault)

NextStore ==
  /\ \/ Settled /\ StoreUpdateStep
     \/ Settled /\ StoreDeleteStep
     \/ Settle
  /\ UNCHANGED wsVars
  /\ UNCHANGED <<now, instances, clientVars>>

SpecStore == InitStore /\ [][NextStore]_vars

\* The public partition as the worker fills it: the creation time of a
\* note is the time of its submit, and the worker may store a note after
\* notes that were submitted later (a redelivery), so a new record is either
\* newer or older than the ones stored.  The noteId of a note is its
\* creation time here.
PublicTimes == {i.createdAt : i \in QueryPrefix(notesTable, PublicKey, "NOTE")}

StorePublicNote(t) ==
  /\ t \in ListedIds
  /\ \/ PublicTimes = {}
     \/ \A x \in PublicTimes : x = t + 1 \/ x > t + 1
     \/ \A x \in PublicTimes : x + 1 = t \/ x + 1 < t
  /\ PublicTimes # {} => (t + 1 \in PublicTimes \/ t - 1 \in PublicTimes)
  /\ LET u == IF t % 2 = 0 THEN "alice" ELSE "bob" IN
     /\ notesTable' = PutItem(notesTable,
                              SaveItem(NoteCreatedEvent(t, u, <<"h">>, TRUE, t)))
     /\ acceptedNotes' = acceptedNotes \cup {Accepted(t, u)}
  /\ UNCHANGED <<queue, dlq, worker, lastRun, resp, emitted, nextNote, nextPoison>>

NextList ==
  /\ \E t \in ListedIds : StorePublicNote(t)
  /\ UNCHANGED wsVars
  /\ UNCHANGED <<now, instances, clientVars>>

SpecList == Init /\ [][NextList]_vars

(***************************************************************************)
(* The event bus (event-stack.ts).  An entry carries the Source and        *)
(* DetailType its producer wrote next to the payload; a rule matches on    *)
(* these two and hands the entry to its target.                            *)
(***************************************************************************)
NotesSource == "notes.service"

Rules_NotifyAll ==
  {[detailType |-> t, source |-> "notes.service", target |-> "notify"] :
     t \in {"note-created", "note-saved", "note-failed", "note-updated", "note-deleted"}}
  \cup {[detailType |-> "note-created", source |-> "notes.service", target |-> "queue"]}

\* NoteCreatedRule and NotifyRule0..3
Rules ==
  {[detailType |-> "note-created", source |-> "notes.service", target |-> "queue"]}
  \cup {[detailType |-> t, source |-> "notes.service", target |-> "notify"] :
          t \in {"note-saved", "note-failed", "note-updated", "note-deleted"}}

\* createEventClient.publishEvent and the handlers' own PutEventsCommand:
\* Source is the constant, DetailType is the payload's eventType.
BusEntry(source, detail) ==
  [Source |-> source, DetailType |-> detail.eventType, Detail |-> detail]

Targets(entry) ==
  {r.target : r \in {x \in Rules : /\ x.detailType = entry.DetailType
                                   /\ x.source = entry.Source}}

\* The payload as notify reads it: the fields of NoteEvent.
AsNoteEvent(detail) ==
  IF detail.eventType = "note-created"
    THEN [eventType |-> "note-created", noteId |-> detail.noteId,
          username |-> detail.username, isPublic |-> BoolField(detail.isPublic),
          pub |-> detail.isPublic]
    ELSE detail

CreatedDetails ==
  {NoteCreatedEvent(n, u, <<"h">>, p, n) : <<n, u, p>> \in NoteIds \X Users \X BOOLEAN}

\* What the program's producers put on the bus, and the same payloads put
\* by a sender with another source.
BusEntries ==
  {BusEntry(src, d) : <<src, d>> \in {NotesSource, "other.service"} \X
                                     (CreatedDetails \cup NotifyInputs)}

PutEvents(entry) ==
  LET targets == Targets(entry) IN
  /\ IF "queue" \in targets
       THEN queue' = queue \cup {Message(entry.Detail.noteId, TRUE, entry.Detail)}
       ELSE UNCHANGED queue
  /\ IF "notify" \in targets
       THEN Notify(AsNoteEvent(entry.Detail), "none")
       ELSE UNCHANGED wsVars
  /\ UNCHANGED <<notesTable, dlq, worker, lastRun, resp, emitted, nextNote,
                 nextPoison, acceptedNotes, now, instances,
                 clientVars>>

NextBus == \E entry \in BusEntries : PutEvents(entry)

SpecBus == Init /\ [][NextBus]_vars

(***************************************************************************)
(* The registry by itself: the connect and disconnect handlers run for any *)
(* connection id, in any order and any number of times, while the clock    *)
(* runs and the table's time-to-live process removes expired items.        *)
(***************************************************************************)
\* The clock advances in steps of half the time to live.
ClockStep == TtlSeconds \div 2

ClockEnd == MaxClock * ClockStep

\* connect handler with a token that names a user
Register(c, u, fault) ==
  /\ now + TtlSeconds < ClockEnd
  /\ connTable' = ConnectWrites(connTable, c, u, now + TtlSeconds, fault)
  /\ resp' = Resp("connect", ConnectStatus(fault), c)
  /\ UNCHANGED <<wsConn, lastNotify, notesTable, queue, dlq, worker, lastRun,
                 emitted, nextNote, nextPoison, acceptedNotes, now, instances,
                 clientVars>>

\* disconnect handler
Unregister(c, fault) ==
  /\ connTable' = DisconnectWrites(connTable, c, fault)
  /\ resp' = Resp("disconnect", DisconnectStatus(connTable, c, fault), c)
  /\ UNCHANGED <<wsConn, lastNotify, notesTable, queue, dlq, worker, lastRun,
                 emitted, nextNote, nextPoison, acceptedNotes, now, instances,
                 clientVars>>

Tick ==
  /\ now < ClockEnd
  /\ now' = now + ClockStep
  /\ resp' = NoResp
  /\ UNCHANGED <<wsVars, notesTable, queue, dlq, worker, lastRun, emitted,
                 nextNote, nextPoison, acceptedNotes, instances,
                 clientVars>>

Expired_Never(i, time) == FALSE

\* timeToLiveAttribute 'ttl': an item whose ttl lies before the current time
Expired(i, time) == i.ttl < time

\* The time-to-live process deletes one expired item.
Expire(i) ==
  /\ i \in connTable
  /\ Expired(i, now)
  /\ connTable' = connTable \ {i}
  /\ resp' = NoResp
  /\ UNCHANGED <<wsConn, lastNotify, notesTable, queue, dlq, worker, lastRun,
                 emitted, nextNote, nextPoison, acceptedNotes, now, instances,
                 clientVars>>

RegisterStep ==
  \E c \in ConnIds, u \in Users, fault \in ConnectFaults : Register(c, u, fault)

UnregisterStep ==
  \E c \in ConnIds :
    \E fault \in IF DisconnectUser(connTable, c) = NoUser
                   THEN {"none", "get", "del1"} ELSE DisconnectFaults :
      Unregister(c, fault)

ExpireStep == \E i \in connTable : Expire(i)

NextRegistry == RegisterStep \/ UnregisterStep \/ Tick \/ ExpireStep

SpecRegistry == Init /\ [][NextRegistry]_vars

\* Time passes, and the time-to-live process sooner or later deletes an item
\* that stays expired.
\* The expiry times a connect can write before the clock ends.
TtlValues ==
  {t \in {h * ClockStep + TtlSeconds : h \in 0..MaxClock} : t < ClockEnd}

RegistryItems ==
  {MetaItem(c, u, t) : <<c, u, t>> \in ConnIds \X Users \X TtlValues}
  \cup {UserConnItem(c, u, t) : <<c, u, t>> \in ConnIds \X Users \X TtlValues}

FairSpecRegistry ==
  /\ SpecRegistry
  /\ WF_vars(Tick)
  /\ \A i \in RegistryItems : WF_vars(Expire(i))

(***************************************************************************)
(* The queue and the event source of the worker in time: the poller        *)
(* receives a batch for a worker instance, which starts the visibility     *)
(* timeout of its messages, invokes the instance, and when the invocation  *)
(* has returned deletes the messages it handled.  What the invocation does *)
(* with the batch is SaveNote in SpecNotes.                                 *)
(***************************************************************************)
VisibilityTimeout == 30

FunctionTimeout == 30

\* The clock advances in steps of half the visibility timeout.
VisStep == VisibilityTimeout \div 2

VisClockEnd == MaxVisTicks * VisStep

\* Hands a message to an instance whether it is in flight or not.
PollerReceive_IgnoreVisibility(w, S) ==
  /\ instances[w].phase = "idle"
  /\ S # {}
  /\ S \subseteq {m.id : m \in {v \in queue : v.receiveCount < MaxReceiveCount}}
  /\ Cardinality(S) <= BatchSize
  /\ queue' = {IF m.id \in S
                 THEN [m EXCEPT !.receiveCount = @ + 1, !.inflight = TRUE,
                                !.visibleAt = now + VisibilityTimeout]
                 ELSE m : m \in queue}
  /\ instances' = [instances EXCEPT ![w] =
                     [phase |-> "received",
                      handles |-> {<<m.id, m.receiveCount + 1>> : m \in {v \in queue : v.id \in S}},
                      receivedAt |-> now, startedAt |-> 0]]
  /\ UNCHANGED <<notesTable, dlq, worker, lastRun, resp, emitted, nextNote,
                 nextPoison, acceptedNotes, now>>

\* ReceiveMessage by the event source: up to batchSize visible messages;
\* each gets a new receipt handle and stays invisible for the timeout.
PollerReceive(w, S) ==
  /\ instances[w].phase = "idle"
  /\ S # {}
  /\ S \subseteq {m.id : m \in {v \in Visible : v.receiveCount < MaxReceiveCount}}
  /\ Cardinality(S) <= BatchSize
  /\ queue' = {IF m.id \in S
                 THEN [m EXCEPT !.receiveCount = @ + 1, !.inflight = TRUE,
                                !.visibleAt = now + VisibilityTimeout]
                 ELSE m : m \in queue}
  /\ instances' = [instances EXCEPT ![w] =
                     [phase |-> "received",
                      handles |-> {<<m.id, m.receiveCount + 1>> : m \in {v \in queue : v.id \in S}},
                      receivedAt |-> now, startedAt |-> 0]]
  /\ UNCHANGED <<notesTable, dlq, worker, lastRun, resp, emitted, nextNote,
                 nextPoison, acceptedNotes, now>>

\* The event source invokes the function with the batch.
Invoke(w) ==
  /\ instances[w].phase = "received"
  /\ instances' = [instances EXCEPT ![w].phase = "running", ![w].startedAt = now]
  /\ UNCHANGED <<notesTable, queue, dlq, worker, lastRun, resp, emitted,
                 nextNote, nextPoison, acceptedNotes, now>>

\* The messages a receipt handle of the batch still addresses, and those
\* received again since: DeleteMessage with an old handle may or may not
\* delete the message.
Current(w) ==
  {m \in queue : <<m.id, m.receiveCount>> \in instances[w].handles}

Stale(w) ==
  {m \in queue : \E h \in instances[w].handles : h[1] = m.id /\ h[2] < m.receiveCount}

\* The invocation has returned or was stopped at its timeout.  handled are
\* the messages it did not report as failed, which the event source deletes.
Return(w, handled, staleDeleted) ==
  /\ instances[w].phase = "running"
  /\ handled \subseteq {h[1] : h \in instances[w].handles}
  /\ staleDeleted \subseteq {m \in Stale(w) : m.id \in handled}
  /\ queue' = (queue \ {m \in Current(w) : m.id \in handled}) \ staleDeleted
  /\ instances' = [instances EXCEPT ![w] = Idle]
  /\ UNCHANGED <<notesTable, dlq, worker, lastRun, resp, emitted, nextNote,
                 nextPoison, acceptedNotes, now>>

\* Time passes; a running invocation does not outlive the function timeout,
\* and a message whose deadline has come is visible again.
VisTick ==
  /\ now < VisClockEnd
  /\ \A w \in InstanceIds :
       instances[w].phase = "running" =>
         now + VisStep <= instances[w].startedAt + FunctionTimeout
  /\ now' = now + VisStep
  /\ queue' = {[m EXCEPT !.inflight = (m.inflight /\ now + VisStep < m.visibleAt)] :
                 m \in queue}
  /\ UNCHANGED <<notesTable, dlq, worker, lastRun, resp, emitted, nextNote,
                 nextPoison, acceptedNotes, instances,
                 clientVars>>

PollerReceiveStep ==
  \E w \in InstanceIds, S \in SUBSET {m.id : m \in queue} : PollerReceive(w, S)

InvokeStep == \E w \in InstanceIds : Invoke(w)

ReturnStep ==
  \E w \in InstanceIds :
    \E handled \in SUBSET {h[1] : h \in instances[w].handles} :
      \E staleDeleted \in SUBSET Stale(w) : Return(w, handled, staleDeleted)

RedriveStep ==
  /\ \E m \in queue : MoveToDlq(m)
  /\ UNCHANGED <<now, instances, clientVars>>

\* The submits have been accepted and their messages wait in the queue.
InitVisibility ==
  /\ connTable = {}
  /\ wsConn = [c \in ConnIds |-> ConnState("fresh", NoUser)]
  /\ lastNotify = NoNotify
  /\ notesTable = {}
  /\ queue = {Message(n, TRUE, NoteCreatedEvent(n, "alice", <<"h">>, FALSE, n)) :
                n \in NoteIds}
  /\ dlq = {}
  /\ worker = <<>>
  /\ lastRun = NoRun
  /\ resp = NoResp
  /\ emitted = {}
  /\ nextNote = MaxNotes
  /\ nextPoison = 0
  /\ acceptedNotes = {Accepted(n, "alice") : n \in NoteIds}
  /\ now = 0
  /\ instances = [w \in InstanceIds |-> Idle]
  /\ ClientConstructed

NextVisibility ==
  /\ \/ PollerReceiveStep
     \/ InvokeStep
     \/ ReturnStep
     \/ VisTick
     \/ RedriveStep
  /\ UNCHANGED wsVars
  /\ UNCHANGED clientVars

SpecVisibility == InitVisibility /\ [][NextVisibility]_vars

TypeOK ==
  /\ wsConn \in [ConnIds -> [st : {"fresh", "rejected401", "failed500", "open",
                                   "closed200", "closed500", "lost"},
                             user : Users \cup {NoUser}]]
  /\ nextNote \in 0..MaxNotes
  /\ nextPoison \in 0..MaxPoison
(***************************************************************************)
(* Lemmas linking the two specifications (checked under SpecNotes).        *)
(***************************************************************************)
\* Every record in a USER#<username> partition is a private note.
UserPartitionIsPrivate ==
  \A i \in notesTable : i.pk[1] = "USER" => i.isPublic \in UserPartitionVisibility

\* Every event the producers put on the bus is an input SpecWs gives notify.
EmittedAreNotifyInputs == emitted \subseteq EmittedEvents

(***************************************************************************)
(* Claims about the registry and the dispatcher (SpecWs)                   *)
(***************************************************************************)
NotifyReturned == lastNotify.ran /\ ~lastNotify.threw

GoneResults == {"gone:none", "gone:meta", "gone:both"}

HasMeta(c) == \E i \in ByConnectionId(connTable) : i.connectionId = c

HasOwnerEntry(c) == \E i \in ByOwner(connTable) : i.connectionId = c

\* C2: when a push to connection C (registered for owner U) answers 'gone',
\* then once notify has returned C is in neither index and listForOwner(U)
\* does not contain C.
C2_GoneRemovesConnection ==
  NotifyReturned =>
    \A c \in lastNotify.recipients :
      lastNotify.result[c] \in GoneResults =>
        /\ ~HasMeta(c)
        /\ ~HasOwnerEntry(c)
        /\ c \notin listForOwner(connTable, wsConn[c].user)

\* C3: the two indices agree: C has a by-connectionId entry with owner U
\* exactly when U's by-owner partition has an entry for C.
C3_IndicesAgree ==
  \A c \in ConnIds, u \in Users :
    (\E i \in ByConnectionId(connTable) : i.connectionId = c /\ i.username = u)
      <=> (\E i \in ByOwner(connTable) : i.connectionId = c /\ i.username = u)

C5_PrivateEventStaysWithOwner ==
  (NotifyReturned /\ ~lastNotify.event.pub) =>
    \A c \in lastNotify.recipients : wsConn[c].user = lastNotify.event.username

\* C5 witness: a private event was pushed to its owner's connection while a
\* connection of another user was registered and open.
C5_Witness ==
  /\ NotifyReturned
  /\ ~lastNotify.event.pub
  /\ lastNotify.event.eventType \in {"note-saved", "note-updated", "note-deleted"}
  /\ \E c \in lastNotify.recipients : lastNotify.result[c] = "sent"
  /\ \E d \in lastNotify.registered \ lastNotify.recipients :
       /\ wsConn[d].st = "open"
       /\ wsConn[d].user # lastNotify.event.username

\* C6: a note-failed event is pushed only to connections of event.username,
\* whatever isPublic its payload carries.
C6_FailedIsNeverBroadcast ==
  (NotifyReturned /\ lastNotify.event.eventType = "note-failed") =>
    \A c \in lastNotify.recipients : wsConn[c].user = lastNotify.event.username

\* C6 witness: a note-failed with isPublic = true was pushed to its owner
\* and not to the registered connection of another user.
C6_Witness ==
  /\ NotifyReturned
  /\ lastNotify.event.eventType = "note-failed"
  /\ lastNotify.event.isPublic = "true"
  /\ \E c \in lastNotify.recipients : lastNotify.result[c] = "sent"
  /\ \E d \in lastNotify.registered \ lastNotify.recipients :
       wsConn[d].user # lastNotify.event.username

(***************************************************************************)
(* Claims about the queue and the persistence worker (SpecNotes)           *)
(***************************************************************************)
Steps == {lastRun.steps[i] : i \in 1..Len(lastRun.steps)}

Reported == Range(lastRun.failures)

StoredUnder(pk, n) ==
  \E i \in notesTable : i.pk = pk /\ i.noteId = n /\ i.status = "saved"

\* C1: after the worker has processed a NoteRequested with isPublic = true
\* for owner U, a SAVED record of the note is stored under U's key and under
\* the public key, and both listings show it.
C1_PublicNoteUnderBothKeys ==
  \A st \in Steps :
    (st.put = "ok" /\ st.savedPub = "ok" /\ st.detail.isPublic) =>
      /\ StoredUnder(UserKey(st.detail.username), st.detail.noteId)
      /\ StoredUnder(PublicKey, st.detail.noteId)
      /\ \E i \in getUserNotes(notesTable, st.detail.username) :
           i.noteId = st.detail.noteId
      /\ \E k \in 1..Len(getPublicNotes(notesTable)) :
           getPublicNotes(notesTable)[k].noteId = st.detail.noteId

\* C7: a message whose payload cannot be deserialized is acknowledged: it is
\* not reported as a failure, is gone from the queue, and no such message
\* ever reaches the dead-letter queue.
C7_PoisonIsDropped ==
  /\ \A st \in Steps :
       st.parsed = "error" =>
         /\ st.id \notin Reported
         /\ ~\E m \in queue : m.id = st.id
  /\ \A m \in dlq : m.body.wellFormed

\* C8: when the storage write of a message fails, its id is reported as a
\* failure, the message stays in the queue and is visible again, and one
\* note-failed carrying its noteId and username was handed to publishEvent.
C8_StorageFailureIsReported ==
  \A st \in Steps :
    st.put = "error" =>
      /\ st.id \in Reported
      /\ \E m \in queue : m.id = st.id /\ ~m.inflight
      /\ st.failedPub \in {"ok", "error"}
      /\ st.failedEvent.eventType = "note-failed"
      /\ st.failedEvent.noteId = st.detail.noteId
      /\ st.failedEvent.username = st.detail.username
      /\ st.savedPub = "skipped"

\* C8 witness: a run in which a storage write failed.
C8_Witness ==
  \E st \in Steps : st.put = "error" /\ st.failedPub = "ok" /\ st.failedEvent \in emitted

\* C9: a message whose storage write succeeded is acknowledged, whatever
\* the publish of note-saved does.
C9_WrittenIsAcknowledged ==
  \A st \in Steps :
    st.put = "ok" =>
      /\ st.id \notin Reported
      /\ ~\E m \in queue : m.id = st.id

StepFailed(st) ==
  st.parsed = "error" \/ st.put = "error" \/ st.savedPub = "error"

\* C10: the ids the worker returns as failures are exactly the messages of
\* the batch whose processing threw; every message of the batch is
\* processed, and the queue keeps exactly the reported ones.
C10_FailuresAreExact ==
  lastRun.ran =>
    /\ Len(lastRun.steps) = Len(lastRun.batch)
    /\ \A i \in 1..Len(lastRun.batch) : lastRun.steps[i].id = lastRun.batch[i]
    /\ Reported = {st.id : st \in {x \in Steps : StepFailed(x)}}
    /\ \A id \in Range(lastRun.batch) :
         (id \in Reported) <=> (\E m \in queue : m.id = id)

\* C10 witness: a batch in which a message failed and a later one succeeded.
C10_Witness ==
  /\ lastRun.ran
  /\ \E i, j \in 1..Len(lastRun.steps) :
       /\ i < j
       /\ StepFailed(lastRun.steps[i])
       /\ ~StepFailed(lastRun.steps[j])
       /\ lastRun.steps[j].id \notin Reported
       /\ StoredUnder(UserKey(lastRun.steps[j].detail.username),
                      lastRun.steps[j].detail.noteId)
(***************************************************************************)
(* Claims about redelivery and the dead-letter queue (FairSpecNotes)       *)
(***************************************************************************)
MessageIds == NoteIds \cup {PoisonId(k) : k \in 1..MaxPoison}

Enqueued(id) == \E m \in queue : m.id = id

InDlq(id) == \E m \in dlq : m.id = id

Exhausted(id) ==
  \E m \in queue : m.id = id /\ ~m.inflight /\ m.receiveCount = MaxReceiveCount

DeliveriesBounded ==
  /\ \A m \in queue \cup dlq : m.receiveCount <= MaxReceiveCount
  /\ \A m \in dlq : /\ m.receiveCount = MaxReceiveCount
                    /\ ~Enqueued(m.id)
                    /\ m.id \notin Range(worker)

\* C11: no message is delivered to the worker more than 3 times, and a
\* message that is back in the queue after its 3rd delivery failed is moved
\* to the dead-letter queue.
C11_ThreeDeliveriesThenDlq ==
  /\ []DeliveriesBounded
  /\ \A id \in MessageIds : Exhausted(id) ~> InDlq(id)

\* C11 witness: a note message is in the dead-letter queue after 3
\* deliveries, and no record of its note was stored.
C11_Witness ==
  \E m \in dlq :
    /\ m.body.wellFormed
    /\ m.receiveCount = MaxReceiveCount
    /\ ~\E i \in notesTable : i.noteId = m.body.detail.noteId

Terminal(n) ==
  /\ ~Enqueued(n)
  /\ \/ InDlq(n)
     \/ \E i \in notesTable : i.noteId = n /\ i.status = "saved"

\* C12: under fair scheduling of the queue and the worker, every enqueued
\* note-created message leaves the queue, and when it has left either its
\* record is stored or the message is in the dead-letter queue.
C12_EveryRequestTerminates ==
  \A n \in NoteIds : Enqueued(n) ~> Terminal(n)

\* C12 witness: a message was acknowledged on a redelivery with its record
\* stored.
C12_Witness ==
  \E st \in Steps :
    /\ st.parsed = "ok"
    /\ st.delivery >= 2
    /\ st.id \notin Reported
    /\ ~Enqueued(st.id)
    /\ \E i \in notesTable : i.noteId = st.detail.noteId
(***************************************************************************)
(* Claims about the records and events of a request (SpecNotes)            *)
(***************************************************************************)
RecordsOf(pk, n) == {i \in notesTable : i.pk = pk /\ i.noteId = n}

\* C13: a note-created payload persisted again (a redelivery) writes the
\* key of the first write: every partition holds at most one record per
\* noteId, and exactly one where the worker has just written.
C13_DuplicateWriteKeepsOneRecord ==
  /\ \A i, j \in notesTable : (i.pk = j.pk /\ i.noteId = j.noteId) => i = j
  /\ \A st \in Steps :
       st.put = "ok" =>
         Cardinality(RecordsOf(SaveItem(st.detail).pk, st.detail.noteId)) = 1

\* C13 witness: on a redelivery the worker wrote a key that was already
\* stored.
C13_Witness ==
  \E st \in Steps :
    /\ st.put = "ok"
    /\ st.overwrote
    /\ st.delivery >= 2
    /\ Cardinality(RecordsOf(SaveItem(st.detail).pk, st.detail.noteId)) = 1

DlqNoteIds == {m.body.detail.noteId : m \in {d \in dlq : d.body.wellFormed}}

NoteMessages == {m \in queue \cup dlq : m.body.wellFormed}

\* C15: a submit answered 202 has put exactly one note-created message with
\* the returned noteId on the queue; a noteId is accepted for one username
\* only; and every message, stored record and note-saved or note-failed
\* event carries the noteId and username of an accepted submit.
C15_NoteIdAssignedOnce ==
  /\ (resp.op = "publish" /\ resp.status = 202) =>
       /\ Cardinality({m \in queue : m.body.detail.noteId = resp.noteId}) = 1
       /\ \E a \in acceptedNotes : a.noteId = resp.noteId
  /\ \A a, b \in acceptedNotes : a.noteId = b.noteId => a = b
  /\ \A m, k \in NoteMessages :
       m.body.detail.noteId = k.body.detail.noteId => m.id = k.id
  /\ \A m \in NoteMessages :
       Accepted(m.body.detail.noteId, m.body.detail.username) \in acceptedNotes
  /\ \A i \in notesTable : Accepted(i.noteId, i.username) \in acceptedNotes
  /\ \A e \in emitted :
       e.eventType \in {"note-saved", "note-failed"} =>
         Accepted(e.noteId, e.username) \in acceptedNotes

\* C15 witness: a note-saved event and the stored record carry the noteId
\* and username of the accepted submit.
C15_Witness ==
  \E e \in emitted, i \in notesTable :
    /\ e.eventType = "note-saved"
    /\ i.noteId = e.noteId
    /\ i.username = e.username
    /\ Accepted(e.noteId, e.username) \in acceptedNotes

AllSaved == \A i \in notesTable : i.status = "saved"

SubmitLeavesStorage == resp'.op = "publish" => notesTable' = notesTable

OnlyWorkerCreates ==
  \A n \in NoteIds :
    ( /\ ~\E i \in notesTable : i.noteId = n
      /\ \E i \in notesTable' : i.noteId = n )
    => /\ lastRun'.ran
       /\ \E k \in 1..Len(lastRun'.steps) :
            /\ lastRun'.steps[k].put = "ok"
            /\ lastRun'.steps[k].detail.noteId = n

\* C16: the submit handler leaves the notes table as it is, a record for a
\* noteId first appears in a step in which the worker wrote it, and every
\* stored record has status saved.
C16_SubmitDoesNotTouchStorage ==
  /\ []AllSaved
  /\ [][SubmitLeavesStorage /\ OnlyWorkerCreates]_vars

\* C16 witness: a submit was answered 202 and its note has no record yet.
C16_Witness ==
  /\ resp.op = "publish"
  /\ resp.status = 202
  /\ Enqueued(resp.noteId)
  /\ ~\E i \in notesTable : i.noteId = resp.noteId
SubmitInvalid(token, body) ==
  \/ token[1] \in {"none", "nouser"}
  \/ token[1] = "user" /\ (body.kind # "string" \/ Trim(body.text) = <<>>)

\* C17: a submit without a token, with a token that names no user, or with
\* content that is missing, not a string or empty after trimming is answered
\* 400 or 401 and enqueues nothing, publishes nothing and accepts no noteId.
C17_InvalidSubmitIsRejected ==
  [][resp'.op = "publish" =>
       \A token \in Tokens, body \in SubmitBodies, isPublic \in BOOLEAN,
          fault \in {"none", "putEvents"} :
         (SubmitInvalid(token, body) /\ PublishNote(token, body, isPublic, fault))
         => /\ resp'.status \in {400, 401}
            /\ queue' = queue
            /\ emitted' = {}
            /\ acceptedNotes' = acceptedNotes
            /\ nextNote' = nextNote]_vars

\* C17 witness: a submit was answered 400 and the queue is still empty.
C17_Witness ==
  /\ resp.op = "publish"
  /\ resp.status = 400
  /\ queue = {}
  /\ acceptedNotes = {}
(***************************************************************************)
(* Claims about update and delete (SpecStore)                              *)
(***************************************************************************)
AnyNoteIds == NoteIds \cup StoredIds

OwnedByOther(u, n) == \E i \in notesTable : i.noteId = n /\ i.username # u

UpdateFaults == {"none", "find", "update", "publish"}

DeleteFaults == {"none", "find", "del1", "del2", "publish"}

\* C18: an update or delete of a note by a user who is not its owner is not
\* answered 200, leaves the notes table as it is and publishes no event.
C18_NonOwnerIsRejected ==
  [][resp'.op \in {"update", "delete"} =>
       \A u \in Users, n \in AnyNoteIds :
         ( /\ OwnedByOther(u, n)
           /\ \/ \E text \in UpdateBodies, fault \in UpdateFaults :
                   UpdateNote(u, n, text, fault)
              \/ \E fault \in DeleteFaults : DeleteNote(<<"user", u>>, n, fault) )
         => /\ resp'.status \in {400, 404, 500}
            /\ notesTable' = notesTable
            /\ emitted' = {}]_vars

\* C18 witness: every noteId has a private record and an update was
\* answered 404, so the caller asked for a note of the other user.
C18_Witness ==
  /\ resp.op = "update"
  /\ resp.status = 404
  /\ \A n \in StoredIds : \E i \in notesTable : i.noteId = n /\ i.pk[1] = "USER"

PublicRecords == {i \in notesTable : i.pk = PublicKey}

NewerThan(i) == {j \in PublicRecords : j.createdAt > i.createdAt}

DispatcherTypes == {"note-saved", "note-failed", "note-updated", "note-deleted"}

DeliveredToQueue(entry) ==
  \E m \in queue' : m.body.detail = entry.Detail

DeliveredToNotify(entry) ==
  /\ lastNotify'.ran
  /\ lastNotify'.event = AsNoteEvent(entry.Detail)

SameButVisibility(d1, d2) ==
  /\ d1.eventType = d2.eventType
  /\ d1.noteId = d2.noteId
  /\ d1.username = d2.username

\* C22: an entry of the notes service goes to the work queue and not to the
\* dispatcher when its type is note-created, and to the dispatcher and not to
\* the work queue when its type is note-saved, note-failed, note-updated or
\* note-deleted; two entries that differ only in the payload's isPublic have
\* the same targets.
C22_RoutingByTypeOnly ==
  /\ [][\A entry \in BusEntries :
          (entry.Source = NotesSource /\ PutEvents(entry)) =>
            /\ entry.DetailType = "note-created" =>
                 /\ DeliveredToQueue(entry)
                 /\ UNCHANGED wsVars
            /\ entry.DetailType \in DispatcherTypes =>
                 /\ DeliveredToNotify(entry)
                 /\ UNCHANGED queue]_vars
  /\ [](\A entry \in BusEntries, other \in BusEntries :
          (/\ entry.Source = NotesSource
           /\ other.Source = NotesSource
           /\ SameButVisibility(entry.Detail, other.Detail))
            => Targets(other) = Targets(entry))

\* C22 witness: a public note-created is on the work queue and a public
\* note-saved has just been handled by the dispatcher.
C22_Witness ==
  /\ \E m \in queue : m.body.detail.eventType = "note-created" /\ m.body.detail.isPublic
  /\ lastNotify.ran
  /\ lastNotify.event.eventType = "note-saved"
  /\ lastNotify.event.isPublic = "true"
(***************************************************************************)
(* Claims about the producers and the bus (SpecNotes)                      *)
(***************************************************************************)
\* C23: the response of submit, update and delete does not depend on what
\* the bus did with the event: a request that is answered 202 (submit) or
\* 200 (update, delete) when the bus takes the event is answered the same
\* when the bus call fails.
C23_ResponseIgnoresBus ==
  [][/\ resp'.op = "publish" =>
          \A token \in Tokens, body \in SubmitBodies, p \in BOOLEAN :
            (/\ token[1] = "user"
             /\ ~ContentRejected(body)
             /\ PublishNote(token, body, p, "putEvents"))
              => resp'.status = 202
     /\ resp'.op = "update" =>
          \A u \in Users, n \in AnyNoteIds, text \in UpdateBodies :
            (/\ Len(text) >= 1
             /\ findNoteByIdForUser(notesTable, u, n) # {}
             /\ UpdateNote(u, n, text, "publish"))
              => resp'.status = 200
     /\ resp'.op = "delete" =>
          \A u \in Users, n \in AnyNoteIds :
            (/\ findNoteByIdForUser(notesTable, u, n) # {}
             /\ DeleteNote(<<"user", u>>, n, "publish"))
              => resp'.status = 200]_vars
(***************************************************************************)
(* Claims about the dispatcher's failures (SpecWs)                         *)
(***************************************************************************)
EntriesOf(table, c) == {i \in table : i.connectionId = c}

\* C24: a recipient whose push failed with an error other than gone has the
\* same registry entries after the dispatcher's run as before it.
C24_ErrorLeavesRegistry ==
  [][lastNotify'.ran =>
       \A c \in lastNotify'.recipients :
         lastNotify'.result[c] = "error" =>
           EntriesOf(connTable', c) = EntriesOf(connTable, c)]_vars

\* C24 witness: the dispatcher has run, the push to a connection with both
\* entries failed with an error other than gone, and both are still there.
C24_Witness ==
  /\ NotifyReturned
  /\ \E c \in lastNotify.recipients :
       /\ lastNotify.result[c] = "error"
       /\ HasMeta(c)
       /\ HasOwnerEntry(c)
\* C25: whenever the dispatcher has resolved the recipients of an event,
\* whatever the pushes and the cleanups do, every resolved recipient has had
\* its push attempted and the handler returns without raising.
C25_PushesAreIndependent ==
  [][\A e \in NotifyInputs :
       Notify(e, "none") =>
         /\ ~lastNotify'.threw
         /\ \A i \in ResolveConnections(connTable, e) :
              i.connectionId \in DOMAIN lastNotify'.result]_vars

\* C25 witness: the dispatcher has returned from a run with two recipients,
\* one whose push failed and one whose push was sent.
C25_Witness ==
  /\ NotifyReturned
  /\ \E c, d \in lastNotify.recipients :
       /\ c # d
       /\ lastNotify.result[c] # "sent"
       /\ lastNotify.result[d] = "sent"
(***************************************************************************)
(* Claims about the registry operations (SpecRegistry)                     *)
(***************************************************************************)
Keys(table) == {<<i.pk, i.sk>> : i \in table}

Registered(table, c, u) ==
  /\ \E i \in ByConnectionId(table) : i.connectionId = c /\ i.username = u
  /\ \E i \in ByOwner(table) : i.connectionId = c /\ i.username = u

EntriesFor(table, c, u) == {i \in table : i.connectionId = c /\ i.username = u}

\* C26: registering a (connectionId, owner) pair that is already registered
\* leaves the table with the same keys, with exactly one by-connectionId and
\* one by-owner entry for the pair, both as the second call wrote them, and
\* with every other entry as it was; registering once more changes nothing.
C26_RegisterIsIdempotent ==
  [][resp'.op = "connect" =>
       \A c \in ConnIds, u \in Users :
         (Registered(connTable, c, u) /\ Register(c, u, "none")) =>
           /\ Keys(connTable') = Keys(connTable)
           /\ EntriesFor(connTable', c, u) =
                {MetaItem(c, u, now + TtlSeconds), UserConnItem(c, u, now + TtlSeconds)}
           /\ connTable' \ EntriesFor(connTable', c, u) =
                connTable \ EntriesFor(connTable, c, u)
           /\ ConnectWrites(connTable', c, u, now + TtlSeconds, "none") = connTable']_vars

\* C26 witness: connect has answered 200 for a pair after the clock has
\* moved, the pair has its two entries with the expiry of this call, and
\* registering it again gives the same table.
C26_Witness ==
  \E c \in ConnIds, u \in Users :
    /\ resp = Resp("connect", 200, c)
    /\ now > 0
    /\ EntriesFor(connTable, c, u) =
         {MetaItem(c, u, now + TtlSeconds), UserConnItem(c, u, now + TtlSeconds)}
    /\ ConnectWrites(connTable, c, u, now + TtlSeconds, "none") = connTable

\* C27: an unregister whose storage calls succeed leaves the entries of every
\* other connection as they were; for a connection without entries it
\* changes nothing and answers 200; for a connection with its two entries it
\* removes exactly these and answers 200.
C27_UnregisterFrame ==
  [][resp'.op = "disconnect" =>
       \A c \in ConnIds :
         Unregister(c, "none") =>
           /\ \A d \in ConnIds \ {c} : EntriesOf(connTable', d) = EntriesOf(connTable, d)
           /\ EntriesOf(connTable, c) = {} =>
                /\ connTable' = connTable
                /\ resp'.status = 200
           /\ \A u \in Users :
                (/\ Registered(connTable, c, u)
                 /\ EntriesOf(connTable, c) = EntriesFor(connTable, c, u))
                  => /\ connTable' = connTable \ EntriesOf(connTable, c)
                     /\ resp'.status = 200]_vars

\* C27 witness: disconnect has answered 200 for a connection that has no
\* entry while another connection has both of its entries.
C27_Witness ==
  \E c \in ConnIds, d \in ConnIds, u \in Users :
    /\ c # d
    /\ resp = Resp("disconnect", 200, c)
    /\ EntriesOf(connTable, c) = {}
    /\ Registered(connTable, d, u)

\* C28: after a disconnect that failed between its two deletes, the
\* connection has no by-owner entry without its by-connectionId entry.
C28_OwnerEntryDeletedFirst ==
  [][resp'.op = "disconnect" =>
       \A c \in ConnIds :
         Unregister(c, "del2") =>
           \A i \in ByOwner(connTable') :
             i.connectionId = c =>
               \E m \in ByConnectionId(connTable') : m.connectionId = c]_vars

\* C29: connect and disconnect do not answer with an error because a storage
\* call of the registry failed.
C29_StorageErrorNotReported ==
  [][resp'.op \in {"connect", "disconnect"} => resp'.status = 200]_vars

SameKey(i, j) == i.pk = j.pk /\ i.sk = j.sk

\* C30: a new entry expires TtlSeconds after the connect that wrote it; the
\* expiry of an entry changes only when a connect for its connection writes
\* it again; and every entry is eventually absent from the table.
C30_EntriesExpire ==
  /\ [][/\ \A j \in connTable' \ connTable : j.ttl = now + TtlSeconds
        /\ \A i \in connTable, j \in connTable' :
             (SameKey(i, j) /\ j.ttl # i.ttl) =>
               \E u \in Users, fault \in ConnectFaults :
                 Register(i.connectionId, u, fault)]_vars
  /\ [](connTable \subseteq RegistryItems)
  /\ \A i \in RegistryItems : (i \in connTable) ~> (i \notin connTable)

\* C30 witness: no disconnect came for a connection, its two entries have
\* outlived their expiry and wait for the time-to-live process.
C30_Witness ==
  \E c \in ConnIds, u \in Users :
    /\ Registered(connTable, c, u)
    /\ \A i \in EntriesOf(connTable, c) : Expired(i, now)
(***************************************************************************)
(* Claims about who creates registry entries (SpecWs)                      *)
(***************************************************************************)
\* C31: a connection whose connect was rejected for a missing token or a
\* token without username has no entry in either index, and every entry
\* belongs to a connection whose connect carried a token naming a user, with
\* that user as its owner.
C31_EntriesOnlyFromTokenUser ==
  /\ \A c \in ConnIds :
       wsConn[c].st \in {"fresh", "rejected401"} => EntriesOf(connTable, c) = {}
  /\ \A i \in connTable :
       /\ wsConn[i.connectionId].user \in Users
       /\ i.username = wsConn[i.connectionId].user

\* C31 witness: one connect was rejected with 401 and has no entry while
\* another connection is registered for the user of its token.
C31_Witness ==
  \E c \in ConnIds, d \in ConnIds :
    /\ wsConn[c].st = "rejected401"
    /\ EntriesOf(connTable, c) = {}
    /\ wsConn[d].st = "open"
    /\ Registered(connTable, d, wsConn[d].user)
\* C32: when the dispatcher has handled an event, every connection of the
\* resolved recipient set has had exactly one push attempt, whether the push
\* was sent or failed, for an owner's event and for a broadcast.
C32_OneAttemptPerConnection ==
  NotifyReturned =>
    /\ DOMAIN lastNotify.attempts = lastNotify.recipients
    /\ \A c \in lastNotify.recipients : lastNotify.attempts[c] = 1

\* C32 witness: a broadcast has been handled whose recipient has both index
\* entries and whose push failed.
C32_Witness ==
  /\ NotifyReturned
  /\ IsBroadcast(lastNotify.event)
  /\ \E c \in lastNotify.recipients :
       /\ HasMeta(c)
       /\ HasOwnerEntry(c)
       /\ lastNotify.result[c] # "sent"
       /\ lastNotify.attempts[c] = 1
(***************************************************************************)
(* Claims about the visibility timeout (SpecVisibility)                    *)
(***************************************************************************)
Holds(w, id) ==
  /\ instances[w].phase # "idle"
  /\ \E h \in instances[w].handles : h[1] = id

\* C33: the poller hands a message to an instance only when the message is
\* outside its visibility deadline, and two instances that hold the same
\* message at the same time received it at least one visibility timeout
\* apart, the deadline of the earlier receive having passed.
C33_InvisibleUntilDeadline ==
  /\ [][\A w \in InstanceIds, m \in queue :
          (instances[w].phase = "idle" /\ Holds(w, m.id)')
            => (m.receiveCount = 0 \/ now >= m.visibleAt)]_vars
  /\ [](\A v \in InstanceIds, w \in InstanceIds, id \in MessageIds :
          (v # w /\ Holds(v, id) /\ Holds(w, id)) =>
            \/ instances[v].receivedAt + VisibilityTimeout <= instances[w].receivedAt
            \/ instances[w].receivedAt + VisibilityTimeout <= instances[v].receivedAt)

\* C33 witness: two instances run on the same message at the same time; the
\* first was invoked late and is still running after the deadline.
C33_Witness ==
  \E v \in InstanceIds, w \in InstanceIds, id \in MessageIds :
    /\ v # w
    /\ Holds(v, id)
    /\ Holds(w, id)
    /\ instances[v].phase = "running"
    /\ instances[w].phase = "running"
    /\ instances[v].receivedAt + VisibilityTimeout <= now
(***************************************************************************)
(* Claims about the worker and the owner's requests (SpecNotes)            *)
(***************************************************************************)
\* C34: a run of the worker leaves every record that the owner has updated
\* as it is: its content stays the updated text and updatedAt stays set.
C34_RedeliveryKeepsUpdate ==
  [][lastRun'.ran =>
       \A i \in notesTable :
         i.updatedAt = "set" =>
           \E j \in notesTable' :
             /\ j.pk = i.pk
             /\ j.sk = i.sk
             /\ j.content = i.content
             /\ j.updatedAt = "set"]_vars
PublishedFailed(st) ==
  /\ st.failedPub = "ok"
  /\ st.failedEvent.eventType = "note-failed"
  /\ st.failedEvent \in emitted

\* C35: in a run of the worker a note-failed is published for a message, and
\* the message is reported as failed, only if its storage write failed; a
\* message whose record was written has neither.
C35_FailedOnlyOnStorageFailure ==
  \A st \in Steps :
    /\ (PublishedFailed(st) \/ st.id \in Reported) => st.put = "error"
    /\ st.put = "ok" => (~PublishedFailed(st) /\ st.id \notin Reported)
(***************************************************************************)
(* The worker on a queue that already holds one NoteRequested message per  *)
(* stored id, so that a batch carries several well-formed records.         *)
(***************************************************************************)
InitBatch ==
  /\ connTable = {}
  /\ wsConn = [c \in ConnIds |-> ConnState("fresh", NoUser)]
  /\ lastNotify = NoNotify
  /\ notesTable = {}
  /\ queue = {Message(n, TRUE, NoteCreatedEvent(n, "alice", <<"h">>, n = MaxStored, n)) :
                n \in StoredIds}
  /\ dlq = {}
  /\ worker = <<>>
  /\ lastRun = NoRun
  /\ resp = NoResp
  /\ emitted = {}
  /\ nextNote = MaxStored
  /\ nextPoison = 0
  /\ acceptedNotes = {Accepted(n, "alice") : n \in StoredIds}
  /\ now = 0
  /\ instances = [w \in InstanceIds |-> Idle]
  /\ ClientConstructed

NextBatch ==
  /\ \/ Settled /\ MoveToDlqStep
     \/ Settled /\ WorkerReceiveStep
     \/ Settled /\ SaveNoteStep
     \/ Settle
  /\ UNCHANGED wsVars
  /\ UNCHANGED <<now, instances, clientVars>>

SpecBatch == InitBatch /\ [][NextBatch]_vars

FailedPublishLost(st) ==
  /\ st.parsed = "ok"
  /\ st.put = "error" \/ st.savedPub = "error"
  /\ st.failedPub = "error"

\* C36: when the publish of note-failed itself fails, the error is swallowed:
\* the message is still reported as failed, every record of the batch is still
\* processed, and the invocation returns its report, so the records that were
\* not reported leave the queue.
C36_FailedPublishErrorSwallowed ==
  (lastRun.ran /\ \E st \in Steps : FailedPublishLost(st)) =>
    /\ \A st \in Steps : FailedPublishLost(st) =>
         /\ st.id \in Reported
         /\ st.failedEvent \notin emitted
    /\ Len(lastRun.steps) = Len(lastRun.batch)
    /\ \A i \in 1..Len(lastRun.batch) : lastRun.steps[i].id = lastRun.batch[i]
    /\ \A id \in Range(lastRun.batch) :
         (id \in Reported) <=> (\E m \in queue : m.id = id)

C36_Witness ==
  /\ lastRun.ran
  /\ \E i \in 1..Len(lastRun.steps) :
       /\ FailedPublishLost(lastRun.steps[i])
       /\ i < Len(lastRun.steps)
       /\ lastRun.steps[i].id \in Reported
OwnRecord(table, e) ==
  {i \in table : i.noteId = e.noteId /\ i.pk = UserKey(e.username)}

\* C37: the update and delete handlers publish note-updated / note-deleted
\* only after the storage mutation was applied: a published note-updated
\* names a record that now carries updatedAt, a published note-deleted names
\* a record that was stored and is gone, and a request whose storage update
\* or delete fails publishes nothing.
C37_EventOnlyAfterMutation ==
  [][resp'.op \in {"update", "delete"} =>
       /\ \A e \in emitted' :
            \/ /\ resp'.op = "update"
               /\ e.eventType = "note-updated"
               /\ OwnRecord(notesTable, e) # {}
               /\ \E i \in OwnRecord(notesTable', e) : i.updatedAt = "set"
            \/ /\ resp'.op = "delete"
               /\ e.eventType = "note-deleted"
               /\ OwnRecord(notesTable, e) # {}
               /\ OwnRecord(notesTable', e) = {}
       /\ \A u \in Users, n \in AnyNoteIds, text \in UpdateBodies :
            UpdateNote(u, n, text, "update") => emitted' = {}
       /\ \A token \in Tokens, n \in AnyNoteIds :
            DeleteNote(token, n, "del1") => emitted' = {}]_vars

\* C37 witness: a note-updated was published for a record that was seeded
\* without updatedAt and carries it now.
C37_Witness ==
  /\ resp.op = "update"
  /\ \E e \in emitted :
       /\ e.eventType = "note-updated"
       /\ \E i \in OwnRecord(notesTable, e) : i.updatedAt = "set"
\* C38: a note the worker stored for owner U, private or public, is found by
\* U's own update and delete requests: while its record is stored neither
\* request is answered 404.
C38_OwnerFindsStoredNote ==
  [][resp'.op \in {"update", "delete"} =>
       \A i \in notesTable :
         ( \/ \E text \in UpdateBodies, fault \in UpdateFaults :
                UpdateNote(i.username, i.noteId, text, fault)
           \/ \E fault \in DeleteFaults :
                DeleteNote(<<"user", i.username>>, i.noteId, fault) )
         => resp'.status # 404]_vars
(***************************************************************************)
(* Push client of the dashboard (class NotesWebSocket).  A step is a call  *)
(* of the page (connect, disconnect, onNoteEvent, offNoteEvent) or a task  *)
(* of the browser: an event of one of the client's WebSocket objects, or   *)
(* a timeout.  The handlers of a WebSocket object are closures over the    *)
(* client and never look at which object this.ws refers to.  Time passes   *)
(* in steps of reconnectDelay ms while a timeout is pending.               *)
(***************************************************************************)
Live == {s \in SocketIds : sockets[s] # "none"}

PendingTimers == {t \in TimerIds : timers[t].pending}

LeastOf(S) == CHOOSE x \in S : \A y \in S : x <= y

clearTimeout_Noop(table, id) == table

\* if (this.reconnectTimer) clearTimeout(this.reconnectTimer): the id of a
\* timeout that has fired clears nothing
clearTimeout(table, id) ==
  IF id \in TimerIds THEN [table EXCEPT ![id] = NoTimer] ELSE table

BackoffDelay_FromAttempt(n) == reconnectDelay * 2^n

\* this.reconnectDelay * Math.pow(2, this.reconnectAttempts - 1)
BackoffDelay(n) == reconnectDelay * 2^(n - 1)

ShouldReconnect_IgnoreIntent(closed, attempts) == attempts < maxReconnectAttempts

ShouldReconnect(closed, attempts) == ~closed /\ attempts < maxReconnectAttempts

ClientStep(op) == [NoClientStep EXCEPT !.op = op]

\* The body of connect(): the flag is reset and a new WebSocket object is
\* made, in state CONNECTING; the url is fixed, so the constructor does not
\* throw.
connect ==
  /\ isIntentionallyClosed' = FALSE
  /\ LET s == LeastOf(SocketIds \ Live)
     IN /\ sockets' = [sockets EXCEPT ![s] = "connecting"]
        /\ ws' = s

\* connect() called by the page.  Each WebSocket object and each pending
\* timeout can lead to one more object, and MaxSockets of them fit.
ClientConnect ==
  /\ Cardinality(Live) + Cardinality(PendingTimers) < MaxSockets
  /\ connect
  /\ lastClient' = ClientStep("connect")
  /\ sinceDisconnect' = [active |-> FALSE, dropped |-> {}]
  /\ UNCHANGED <<reconnectAttempts, reconnectTimer, callbacks, timers>>

onopen(s) ==
  /\ sockets[s] = "connecting"
  /\ sockets' = [sockets EXCEPT ![s] = "open"]
  /\ reconnectAttempts' = 0
  /\ lastClient' = ClientStep("open")
  /\ UNCHANGED <<ws, reconnectTimer, isIntentionallyClosed, callbacks, timers,
                 sinceDisconnect>>

\* A message event is dispatched only while readyState is OPEN; data that
\* does not parse is logged and reaches no callback.
onmessage(s, parses) ==
  /\ sockets[s] = "open"
  /\ lastClient' = [ClientStep("message") EXCEPT
                      !.invoked = IF parses THEN callbacks ELSE {}]
  /\ UNCHANGED <<ws, reconnectAttempts, reconnectTimer, isIntentionallyClosed,
                 callbacks, sockets, timers, sinceDisconnect>>

scheduleReconnect ==
  LET cleared == clearTimeout(timers, reconnectTimer)
      n == reconnectAttempts + 1
      t == LeastOf({i \in TimerIds : ~cleared[i].pending})
  IN /\ reconnectAttempts' = n
     /\ timers' = [cleared EXCEPT ![t] = [pending |-> TRUE, delay |-> BackoffDelay(n),
                                           elapsed |-> 0, attempt |-> n]]
     /\ reconnectTimer' = t

\* The close event of a WebSocket object: a connection attempt that failed
\* (after its error event, whose handler only rejects the promise), a
\* connection the server or the network ended, or the end of close().
onclose(s) ==
  /\ sockets[s] # "none"
  /\ sockets' = [sockets EXCEPT ![s] = "none"]
  /\ ws' = Null
  /\ IF ShouldReconnect(isIntentionallyClosed, reconnectAttempts)
       THEN /\ scheduleReconnect
            /\ lastClient' = [ClientStep("close") EXCEPT
                                !.was = sockets[s],
                                !.scheduled = BackoffDelay(reconnectAttempts + 1),
                                !.attempt = reconnectAttempts + 1]
       ELSE /\ lastClient' = [ClientStep("close") EXCEPT !.was = sockets[s]]
            /\ UNCHANGED <<reconnectAttempts, reconnectTimer, timers>>
  /\ UNCHANGED <<isIntentionallyClosed, callbacks, sinceDisconnect>>

\* The timeout set by scheduleReconnect fires: connect() is called again.
\* this.reconnectTimer keeps the id of the timeout that fired.
ReconnectTimerFires(t) ==
  /\ timers[t].pending
  /\ timers[t].elapsed = timers[t].delay
  /\ timers' = [timers EXCEPT ![t] = NoTimer]
  /\ connect
  /\ lastClient' = [ClientStep("fire") EXCEPT !.attempt = timers[t].attempt,
                                              !.waited = timers[t].elapsed]
  /\ UNCHANGED <<reconnectAttempts, reconnectTimer, callbacks, sinceDisconnect>>

ClientTick ==
  /\ PendingTimers # {}
  /\ \A t \in PendingTimers : timers[t].elapsed < timers[t].delay
  /\ timers' = [t \in TimerIds |->
                  IF timers[t].pending
                    THEN [timers[t] EXCEPT !.elapsed = @ + reconnectDelay]
                    ELSE timers[t]]
  /\ lastClient' = ClientStep("tick")
  /\ UNCHANGED <<ws, reconnectAttempts, reconnectTimer, isIntentionallyClosed,
                 callbacks, sockets, sinceDisconnect>>

disconnect ==
  /\ isIntentionallyClosed' = TRUE
  /\ timers' = clearTimeout(timers, reconnectTimer)
  /\ reconnectTimer' = Null
  /\ sockets' = IF ws # Null THEN [sockets EXCEPT ![ws] = "closing"] ELSE sockets
  /\ ws' = Null
  /\ callbacks' = {}
  /\ lastClient' = ClientStep("disconnect")
  /\ sinceDisconnect' = [active |-> TRUE, dropped |-> callbacks]
  /\ UNCHANGED reconnectAttempts

onNoteEvent(callback) ==
  /\ callbacks' = callbacks \cup {callback}
  /\ lastClient' = ClientStep("on")
  /\ sinceDisconnect' = [sinceDisconnect EXCEPT !.dropped = @ \ {callback}]
  /\ UNCHANGED <<ws, reconnectAttempts, reconnectTimer, isIntentionallyClosed,
                 sockets, timers>>

offNoteEvent(callback) ==
  /\ callbacks' = callbacks \ {callback}
  /\ lastClient' = ClientStep("off")
  /\ UNCHANGED <<ws, reconnectAttempts, reconnectTimer, isIntentionallyClosed,
                 sockets, timers, sinceDisconnect>>

\* The page calls onNoteEvent with a callback it has not registered, and
\* offNoteEvent with one it has.
NextClient ==
  /\ \/ ClientConnect
     \/ \E s \in SocketIds : onopen(s)
     \/ \E s \in SocketIds, parses \in BOOLEAN : onmessage(s, parses)
     \/ \E s \in SocketIds : onclose(s)
     \/ \E t \in TimerIds : ReconnectTimerFires(t)
     \/ ClientTick
     \/ disconnect
     \/ \E callback \in Callbacks \ callbacks : onNoteEvent(callback)
     \/ \E callback \in callbacks : offNoteEvent(callback)
  /\ UNCHANGED <<wsVars, notesVars, now, instances>>

SpecClient == Init /\ [][NextClient]_vars

(***************************************************************************)
(* Claims about the push client (SpecClient)                               *)
(***************************************************************************)
\* A pending timeout or a live WebSocket object never lacks the slot its
\* successor needs.
ClientSlotsSuffice ==
  /\ Cardinality(Live) + Cardinality(PendingTimers) <= MaxSockets
  /\ ws # Null => sockets[ws] # "none"

BackoffTable == <<1000, 2000, 4000, 8000, 16000>>

\* C39: the push client makes at most 5 consecutive reconnection attempts:
\* the attempt counter never exceeds 5, the n-th attempt is scheduled
\* 1000 * 2^(n-1) ms (1 s, 2 s, 4 s, 8 s, 16 s) after the close and fires
\* after exactly that time, an open resets the counter to 0, and at most one
\* reconnect timeout is pending at any time.
C39_BackoffSchedule ==
  /\ reconnectAttempts \in 0..5
  /\ Cardinality(PendingTimers) <= 1
  /\ \A t \in PendingTimers :
       /\ timers[t].attempt \in 1..5
       /\ timers[t].delay = BackoffTable[timers[t].attempt]
  /\ (lastClient.op = "close" /\ lastClient.scheduled # 0) =>
       /\ lastClient.attempt = reconnectAttempts
       /\ lastClient.scheduled = BackoffTable[reconnectAttempts]
       /\ PendingTimers = {reconnectTimer}
  /\ lastClient.op = "fire" =>
       /\ lastClient.attempt \in 1..5
       /\ lastClient.waited = BackoffTable[lastClient.attempt]
  /\ lastClient.op = "open" => reconnectAttempts = 0

\* C39 witness: the fifth attempt has fired, 16 s after the close that
\* scheduled it.
C39_Witness ==
  /\ lastClient.op = "fire"
  /\ lastClient.attempt = 5
  /\ lastClient.waited = 16000
  /\ reconnectAttempts = 5
\* C40: from a call of disconnect() until the page calls connect() again,
\* whatever the client was doing (open, connecting, waiting on a reconnect
\* timeout): no reconnect timeout is pending, scheduled or fires, no callback
\* that disconnect() dropped is invoked, this.ws stays null and no WebSocket
\* object is made.
C40_DisconnectIsFinal ==
  /\ [](sinceDisconnect.active =>
          /\ ws = Null
          /\ reconnectTimer = Null
          /\ PendingTimers = {}
          /\ lastClient.op # "fire"
          /\ lastClient.scheduled = 0
          /\ lastClient.invoked \cap sinceDisconnect.dropped = {})
  /\ [][(sinceDisconnect.active /\ sinceDisconnect'.active) =>
          \A s \in SocketIds :
            sockets'[s] \in {"connecting", "open"} => sockets[s] \in {"connecting", "open"}]_vars

\* C40 witness: disconnect() was called while a reconnection was under way
\* and attempts were left, and the close event of the socket it closed has
\* been handled.
C40_Witness ==
  /\ sinceDisconnect.active
  /\ lastClient.op = "close"
  /\ lastClient.was = "closing"
  /\ reconnectAttempts \in 1..4
  /\ sinceDisconnect.dropped # {}
====
